---- MODULE Spec2Model ----
(***************************************************************************)
(* Settings-merge and configuration-resolution core of the deploy tool:    *)
(* the append-missing mergers of deploy/permissions.py, the layered        *)
(* resolver and profile overlay of deploy/config.py and the shared         *)
(* pre-deployment gate of deploy/common.py.                                *)
(*                                                                         *)
(* A JSON object whose key order reaches the written file is an ordered    *)
(* sequence of <<key, value>> pairs (Python dicts keep insertion order and *)
(* json.dumps writes them in that order), so that two files are equal      *)
(* exactly when their bytes are.  A JSON object that only lives in memory  *)
(* (a config layer, a profile) is a function from keys to values.          *)
(* Python strings that are compared or prefix-tested are looked up in ord, *)
(* which gives the code points of each string the model uses.              *)
(***************************************************************************)
EXTENDS Integers, Sequences, FiniteSets, TLC

\* ------------------------------------------------------------------ bounds
MaxRuns == 2            \* merger calls in one behaviour
MaxNewAllows == 2       \* collected allow entries handed to one call
MaxHookConfigs == 2     \* hooks handed to one hooks-merger call

\* ----------------------------------------------------------- Python strings
ord ==
    ("Bash(cat" :> <<66,97,115,104,40,99,97,116>>)
 @@ ("01-bash-read" :> <<48,49,45,98,97,115,104,45,114,101,97,100>>)
 @@ ("Bash(column" :> <<66,97,115,104,40,99,111,108,117,109,110>>)
 @@ ("Bash(cut" :> <<66,97,115,104,40,99,117,116>>)
 @@ ("Bash(diff" :> <<66,97,115,104,40,100,105,102,102>>)
 @@ ("Bash(file" :> <<66,97,115,104,40,102,105,108,101>>)
 @@ ("Bash(find" :> <<66,97,115,104,40,102,105,110,100>>)
 @@ ("Bash(grep" :> <<66,97,115,104,40,103,114,101,112>>)
 @@ ("Bash(head" :> <<66,97,115,104,40,104,101,97,100>>)
 @@ ("Bash(jq" :> <<66,97,115,104,40,106,113>>)
 @@ ("Bash(ls" :> <<66,97,115,104,40,108,115>>)
 @@ ("Bash(md5sum" :> <<66,97,115,104,40,109,100,53,115,117,109>>)
 @@ ("Bash(readlink" :> <<66,97,115,104,40,114,101,97,100,108,105,110,107>>)
 @@ ("Bash(realpath" :> <<66,97,115,104,40,114,101,97,108,112,97,116,104>>)
 @@ ("Bash(rg" :> <<66,97,115,104,40,114,103>>)
 @@ ("Bash(sha256sum" :> <<66,97,115,104,40,115,104,97,50,53,54,115,117,109>>)
 @@ ("Bash(sort" :> <<66,97,115,104,40,115,111,114,116>>)
 @@ ("Bash(stat" :> <<66,97,115,104,40,115,116,97,116>>)
 @@ ("Bash(tail" :> <<66,97,115,104,40,116,97,105,108>>)
 @@ ("Bash(tar" :> <<66,97,115,104,40,116,97,114>>)
 @@ ("Bash(test" :> <<66,97,115,104,40,116,101,115,116>>)
 @@ ("Bash(tr" :> <<66,97,115,104,40,116,114>>)
 @@ ("Bash(tree" :> <<66,97,115,104,40,116,114,101,101>>)
 @@ ("Bash(uniq" :> <<66,97,115,104,40,117,110,105,113>>)
 @@ ("Bash(unzip" :> <<66,97,115,104,40,117,110,122,105,112>>)
 @@ ("Bash(wc" :> <<66,97,115,104,40,119,99>>)
 @@ ("Bash(which" :> <<66,97,115,104,40,119,104,105,99,104>>)
 @@ ("Bash(zip" :> <<66,97,115,104,40,122,105,112>>)
 @@ ("Bash(date" :> <<66,97,115,104,40,100,97,116,101>>)
 @@ ("02-system" :> <<48,50,45,115,121,115,116,101,109>>)
 @@ ("Bash(df" :> <<66,97,115,104,40,100,102>>)
 @@ ("Bash(du" :> <<66,97,115,104,40,100,117>>)
 @@ ("Bash(hostname" :> <<66,97,115,104,40,104,111,115,116,110,97,109,101>>)
 @@ ("Bash(id" :> <<66,97,115,104,40,105,100>>)
 @@ ("Bash(lsof" :> <<66,97,115,104,40,108,115,111,102>>)
 @@ ("Bash(netstat" :> <<66,97,115,104,40,110,101,116,115,116,97,116>>)
 @@ ("Bash(printenv" :> <<66,97,115,104,40,112,114,105,110,116,101,110,118>>)
 @@ ("Bash(ps" :> <<66,97,115,104,40,112,115>>)
 @@ ("Bash(pwd" :> <<66,97,115,104,40,112,119,100>>)
 @@ ("Bash(ss" :> <<66,97,115,104,40,115,115>>)
 @@ ("Bash(top" :> <<66,97,115,104,40,116,111,112>>)
 @@ ("Bash(uname" :> <<66,97,115,104,40,117,110,97,109,101>>)
 @@ ("Bash(uptime" :> <<66,97,115,104,40,117,112,116,105,109,101>>)
 @@ ("Bash(whoami" :> <<66,97,115,104,40,119,104,111,97,109,105>>)
 @@ ("Bash(git " :> <<66,97,115,104,40,103,105,116,32>>)
 @@ ("03-git" :> <<48,51,45,103,105,116>>)
 @@ ("Bash(docker" :> <<66,97,115,104,40,100,111,99,107,101,114>>)
 @@ ("04-docker" :> <<48,52,45,100,111,99,107,101,114>>)
 @@ ("Bash(gh " :> <<66,97,115,104,40,103,104,32>>)
 @@ ("05-github" :> <<48,53,45,103,105,116,104,117,98>>)
 @@ ("Bash(python" :> <<66,97,115,104,40,112,121,116,104,111,110>>)
 @@ ("06-python" :> <<48,54,45,112,121,116,104,111,110>>)
 @@ ("Bash(python3" :> <<66,97,115,104,40,112,121,116,104,111,110,51>>)
 @@ ("Bash(pip" :> <<66,97,115,104,40,112,105,112>>)
 @@ ("Bash(pip3" :> <<66,97,115,104,40,112,105,112,51>>)
 @@ ("Bash(uv " :> <<66,97,115,104,40,117,118,32>>)
 @@ ("Bash(poetry" :> <<66,97,115,104,40,112,111,101,116,114,121>>)
 @@ ("Bash(pyenv" :> <<66,97,115,104,40,112,121,101,110,118>>)
 @@ ("Bash(pipenv" :> <<66,97,115,104,40,112,105,112,101,110,118>>)
 @@ ("Bash(node" :> <<66,97,115,104,40,110,111,100,101>>)
 @@ ("07-node" :> <<48,55,45,110,111,100,101>>)
 @@ ("Bash(npm" :> <<66,97,115,104,40,110,112,109>>)
 @@ ("Bash(npx" :> <<66,97,115,104,40,110,112,120>>)
 @@ ("Bash(yarn" :> <<66,97,115,104,40,121,97,114,110>>)
 @@ ("Bash(pnpm" :> <<66,97,115,104,40,112,110,112,109>>)
 @@ ("Bash(nvm" :> <<66,97,115,104,40,110,118,109>>)
 @@ ("Bash(deno" :> <<66,97,115,104,40,100,101,110,111>>)
 @@ ("Bash(java" :> <<66,97,115,104,40,106,97,118,97>>)
 @@ ("08-jvm" :> <<48,56,45,106,118,109>>)
 @@ ("Bash(javac" :> <<66,97,115,104,40,106,97,118,97,99>>)
 @@ ("Bash(javap" :> <<66,97,115,104,40,106,97,118,97,112>>)
 @@ ("Bash(jar " :> <<66,97,115,104,40,106,97,114,32>>)
 @@ ("Bash(gradle" :> <<66,97,115,104,40,103,114,97,100,108,101>>)
 @@ ("Bash(./gradlew" :> <<66,97,115,104,40,46,47,103,114,97,100,108,101,119>>)
 @@ ("Bash(mvn" :> <<66,97,115,104,40,109,118,110>>)
 @@ ("Bash(kotlin" :> <<66,97,115,104,40,107,111,116,108,105,110>>)
 @@ ("Bash(rustc" :> <<66,97,115,104,40,114,117,115,116,99>>)
 @@ ("09-rust" :> <<48,57,45,114,117,115,116>>)
 @@ ("Bash(rustup" :> <<66,97,115,104,40,114,117,115,116,117,112>>)
 @@ ("Bash(cargo" :> <<66,97,115,104,40,99,97,114,103,111>>)
 @@ ("Bash(~/.claude/tools/" :> <<66,97,115,104,40,126,47,46,99,108,97,117,100,101,47,116,111,111,108,115,47>>)
 @@ ("10-tools" :> <<49,48,45,116,111,111,108,115>>)
 @@ ("Bash(command" :> <<66,97,115,104,40,99,111,109,109,97,110,100>>)
 @@ ("WebFetch" :> <<87,101,98,70,101,116,99,104>>)
 @@ ("11-web" :> <<49,49,45,119,101,98>>)
 @@ ("99-other" :> <<57,57,45,111,116,104,101,114>>)
 @@ ("Bash(git status)" :> <<66,97,115,104,40,103,105,116,32,115,116,97,116,117,115,41>>)
 @@ ("Bash(docker ps)" :> <<66,97,115,104,40,100,111,99,107,101,114,32,112,115,41>>)
 @@ ("Bash(lsof -i)" :> <<66,97,115,104,40,108,115,111,102,32,45,105,41>>)
 @@ ("Bash(wc -l)" :> <<66,97,115,104,40,119,99,32,45,108,41>>)
 @@ ("Bash(my-custom-tool *)" :> <<66,97,115,104,40,109,121,45,99,117,115,116,111,109,45,116,111,111,108,32,42,41>>)
 @@ ("Read(.env)" :> <<82,101,97,100,40,46,101,110,118,41>>)
 @@ ("" :> <<>>)
 @@ ("foo" :> <<102,111,111>>)
 @@ ("bar" :> <<98,97,114>>)

_PERMISSION_GROUPS == <<
    <<"Bash(cat", "01-bash-read">>,
    <<"Bash(column", "01-bash-read">>,
    <<"Bash(cut", "01-bash-read">>,
    <<"Bash(diff", "01-bash-read">>,
    <<"Bash(file", "01-bash-read">>,
    <<"Bash(find", "01-bash-read">>,
    <<"Bash(grep", "01-bash-read">>,
    <<"Bash(head", "01-bash-read">>,
    <<"Bash(jq", "01-bash-read">>,
    <<"Bash(ls", "01-bash-read">>,
    <<"Bash(md5sum", "01-bash-read">>,
    <<"Bash(readlink", "01-bash-read">>,
    <<"Bash(realpath", "01-bash-read">>,
    <<"Bash(rg", "01-bash-read">>,
    <<"Bash(sha256sum", "01-bash-read">>,
    <<"Bash(sort", "01-bash-read">>,
    <<"Bash(stat", "01-bash-read">>,
    <<"Bash(tail", "01-bash-read">>,
    <<"Bash(tar", "01-bash-read">>,
    <<"Bash(test", "01-bash-read">>,
    <<"Bash(tr", "01-bash-read">>,
    <<"Bash(tree", "01-bash-read">>,
    <<"Bash(uniq", "01-bash-read">>,
    <<"Bash(unzip", "01-bash-read">>,
    <<"Bash(wc", "01-bash-read">>,
    <<"Bash(which", "01-bash-read">>,
    <<"Bash(zip", "01-bash-read">>,
    <<"Bash(date", "02-system">>,
    <<"Bash(df", "02-system">>,
    <<"Bash(du", "02-system">>,
    <<"Bash(hostname", "02-system">>,
    <<"Bash(id", "02-system">>,
    <<"Bash(lsof", "02-system">>,
    <<"Bash(netstat", "02-system">>,
    <<"Bash(printenv", "02-system">>,
    <<"Bash(ps", "02-system">>,
    <<"Bash(pwd", "02-system">>,
    <<"Bash(ss", "02-system">>,
    <<"Bash(top", "02-system">>,
    <<"Bash(uname", "02-system">>,
    <<"Bash(uptime", "02-system">>,
    <<"Bash(whoami", "02-system">>,
    <<"Bash(git ", "03-git">>,
    <<"Bash(docker", "04-docker">>,
    <<"Bash(gh ", "05-github">>,
    <<"Bash(python", "06-python">>,
    <<"Bash(python3", "06-python">>,
    <<"Bash(pip", "06-python">>,
    <<"Bash(pip3", "06-python">>,
    <<"Bash(uv ", "06-python">>,
    <<"Bash(poetry", "06-python">>,
    <<"Bash(pyenv", "06-python">>,
    <<"Bash(pipenv", "06-python">>,
    <<"Bash(node", "07-node">>,
    <<"Bash(npm", "07-node">>,
    <<"Bash(npx", "07-node">>,
    <<"Bash(yarn", "07-node">>,
    <<"Bash(pnpm", "07-node">>,
    <<"Bash(nvm", "07-node">>,
    <<"Bash(deno", "07-node">>,
    <<"Bash(java", "08-jvm">>,
    <<"Bash(javac", "08-jvm">>,
    <<"Bash(javap", "08-jvm">>,
    <<"Bash(jar ", "08-jvm">>,
    <<"Bash(gradle", "08-jvm">>,
    <<"Bash(./gradlew", "08-jvm">>,
    <<"Bash(mvn", "08-jvm">>,
    <<"Bash(kotlin", "08-jvm">>,
    <<"Bash(rustc", "09-rust">>,
    <<"Bash(rustup", "09-rust">>,
    <<"Bash(cargo", "09-rust">>,
    <<"Bash(~/.claude/tools/", "10-tools">>,
    <<"Bash(command", "10-tools">>,
    <<"WebFetch", "11-web">>
>>

\* str.startswith
startswith(s, prefix) ==
    LET a == ord[s]
        p == ord[prefix]
    IN  /\ Len(p) <= Len(a)
        /\ \A i \in 1..Len(p) : a[i] = p[i]

\* Python's < on two code-point sequences
RECURSIVE SeqLess(_, _)
SeqLess(a, b) ==
    IF b = <<>> THEN FALSE
    ELSE IF a = <<>> THEN TRUE
    ELSE IF Head(a) # Head(b) THEN Head(a) < Head(b)
    ELSE SeqLess(Tail(a), Tail(b))

StrLess(s, t) == SeqLess(ord[s], ord[t])

\* index of the first rule of _PERMISSION_GROUPS whose prefix entry starts
\* with, 0 when the loop falls through
FirstRule(entry) ==
    LET hits == {i \in 1..Len(_PERMISSION_GROUPS) :
                     startswith(entry, _PERMISSION_GROUPS[i][1])}
    IN  IF hits = {} THEN 0
        ELSE CHOOSE i \in hits : \A j \in hits : i <= j

_permission_sort_key(entry) ==
    LET r == FirstRule(entry)
    IN  IF r = 0 THEN <<"99-other", entry>>
        ELSE <<_PERMISSION_GROUPS[r][2], entry>>

\* the key of every string in use, computed once
sort_keys == [entry \in DOMAIN ord |-> _permission_sort_key(entry)]

\* Python's < on two (group, entry) tuples
KeyLess(k1, k2) ==
    \/ StrLess(k1[1], k2[1])
    \/ k1[1] = k2[1] /\ StrLess(k1[2], k2[2])

\* sorted(S) without the key: entries in plain string order
RECURSIVE sorted_plain(_)
sorted_plain(S) ==
    IF S = {} THEN <<>>
    ELSE LET m == CHOOSE x \in S : \A y \in S \ {x} : StrLess(x, y)
         IN  <<m>> \o sorted_plain(S \ {m})

\* sorted(S, key=_permission_sort_key) for a set S of strings
RECURSIVE sorted_grouped(_)
sorted_grouped(S) ==
    IF S = {} THEN <<>>
    ELSE LET m == CHOOSE x \in S : \A y \in S \ {x} :
                      KeyLess(sort_keys[x], sort_keys[y])
         IN  <<m>> \o sorted_grouped(S \ {m})

\* ------------------------------------------------------- ordered JSON objects
Range(s) == {s[i] : i \in 1..Len(s)}

Keys(d) == [i \in 1..Len(d) |-> d[i][1]]

Has(d, k) == \E i \in 1..Len(d) : d[i][1] = k

\* d[k]
Get(d, k) == d[CHOOSE i \in 1..Len(d) : d[i][1] = k][2]

\* d.get(k, default)
GetOr(d, k, default) == IF Has(d, k) THEN Get(d, k) ELSE default

\* d[k] = v : an existing key keeps its position, a new key goes last
Put(d, k, v) ==
    IF Has(d, k)
    THEN [i \in 1..Len(d) |-> IF d[i][1] = k THEN <<k, v>> ELSE d[i]]
    ELSE Append(d, <<k, v>>)

\* del d[k]
Del(d, k) == SelectSeq(d, LAMBDA kv : kv[1] # k)

\* -------------------------------------------------------------------- files
AbsentFile == [state |-> "absent", doc |-> <<>>]
CorruptFile == [state |-> "corrupt", doc |-> <<>>]
File(d) == [state |-> "ok", doc |-> d]

\* {} for a missing file or one that is not valid JSON
load_json(f) == IF f.state = "ok" THEN f.doc ELSE <<>>

\* the target ends up holding the whole document; the temp file is renamed
\* over it and so does not outlive the call
_atomic_write_json(data) == File(data)

\* ------------------------------------------------- in-memory JSON objects
\* d.get(k, default) on an object held as a function
DGet(d, k, default) == IF k \in DOMAIN d THEN d[k] ELSE default

\* Python truthiness of d.get(k) for a string-valued key: None and "" are falsy
Truthy(d, k) == k \in DOMAIN d /\ d[k] # ""

\* what dict.get returns for a missing key
None == "<None>"

\* ------------------------------------------------------ permissions merger
\* a merger that writes this run's entries over the lists it found
replace_settings_permissions(settings_file, allows, denies, dry, skip) ==
    IF skip \/ dry THEN settings_file
    ELSE
      LET existing == load_json(settings_file)
          with_perms == IF Has(existing, "permissions") THEN existing
                        ELSE Put(existing, "permissions", <<>>)
          perms == Put(Put(Get(with_perms, "permissions"), "allow",
                           sorted_grouped(Range(allows))),
                       "deny", sorted_grouped(Range(denies)))
      IN  _atomic_write_json(Put(with_perms, "permissions", perms))

\* a merger that builds the permissions object afresh from allow and deny
fresh_settings_permissions(settings_file, allows, denies, dry, skip) ==
    IF skip \/ dry THEN settings_file
    ELSE
      LET existing == load_json(settings_file)
          existing_allows == GetOr(GetOr(existing, "permissions", <<>>), "allow", <<>>)
          existing_denies == GetOr(GetOr(existing, "permissions", <<>>), "deny", <<>>)
          perms == << <<"allow", sorted_grouped(Range(existing_allows) \cup Range(allows))>>,
                      <<"deny", sorted_grouped(Range(existing_denies) \cup Range(denies))>> >>
      IN  _atomic_write_json(Put(existing, "permissions", perms))

\* a permissions merger that does not look at the dry-run flag
update_settings_permissions_wet(settings_file, allows, denies, dry, skip) ==
    IF skip THEN settings_file
    ELSE
      LET existing == load_json(settings_file)
          existing_allows == GetOr(GetOr(existing, "permissions", <<>>), "allow", <<>>)
          existing_denies == GetOr(GetOr(existing, "permissions", <<>>), "deny", <<>>)
          merged_allows == sorted_grouped(Range(existing_allows) \cup Range(allows))
          merged_denies == sorted_grouped(Range(existing_denies) \cup Range(denies))
          with_perms == IF Has(existing, "permissions") THEN existing
                        ELSE Put(existing, "permissions", <<>>)
          perms == Put(Put(Get(with_perms, "permissions"), "allow", merged_allows),
                       "deny", merged_denies)
      IN  _atomic_write_json(Put(with_perms, "permissions", perms))

update_settings_permissions(settings_file, allows, denies, dry, skip) ==
    IF skip THEN settings_file
    ELSE IF dry THEN settings_file
    ELSE
      LET existing == load_json(settings_file)
          existing_allows == GetOr(GetOr(existing, "permissions", <<>>), "allow", <<>>)
          existing_denies == GetOr(GetOr(existing, "permissions", <<>>), "deny", <<>>)
          merged_allows == sorted_grouped(Range(existing_allows) \cup Range(allows))
          merged_denies == sorted_grouped(Range(existing_denies) \cup Range(denies))
          with_perms == IF Has(existing, "permissions") THEN existing
                        ELSE Put(existing, "permissions", <<>>)
          perms == Put(Put(Get(with_perms, "permissions"), "allow", merged_allows),
                       "deny", merged_denies)
      IN  _atomic_write_json(Put(with_perms, "permissions", perms))

\* ------------------------------------------------------------ hooks merger
\* str(hooks_base / hook_name / command_script)
command_path(hook_name, command_script) == <<"hooks_base", hook_name, command_script>>

hook_entry(hook_name, hc) ==
    LET base == << <<"type", "command">>,
                   <<"command", command_path(hook_name, hc.command_script)>> >>
        with_async == IF DGet(hc, "async", FALSE)
                      THEN Append(base, <<"async", TRUE>>) ELSE base
    IN  IF "timeout" \in DOMAIN hc
        THEN Append(with_async, <<"timeout", hc.timeout>>) ELSE with_async

matcher_group(hook_name, hc) ==
    << <<"matcher", hc.matcher>>, <<"hooks", <<hook_entry(hook_name, hc)>> >> >>

\* a hooks_config that json.load returned as a list: a value apart from every
\* JSON object, holding its records in order
JsonArray(items) == [array |-> items]
is_list(hc) == DOMAIN hc = {"array"}

\* hc.get(...) on a hooks_config that got past `if not hc: continue` and is a
\* list: AttributeError, 'list' object has no attribute 'get'
get_raises(hc) == is_list(hc) /\ hc.array # <<>>

\* the records of hook_configs that get past both `continue`s
registers(hc) ==
    /\ DOMAIN hc # {}
    /\ ~is_list(hc)
    /\ Truthy(hc, "event") /\ Truthy(hc, "matcher") /\ Truthy(hc, "command_script")

\* the first loop of update_settings_hooks: new_hooks, event -> matcher-groups
RECURSIVE build_new_hooks(_, _)
build_new_hooks(hook_configs, new_hooks) ==
    IF hook_configs = <<>> THEN new_hooks
    ELSE
      LET hook_name == Head(hook_configs)[1]
          data == load_json(Head(hook_configs)[2])
          hc == DGet(data, "hooks_config", <<>>)
      IN  IF ~registers(hc) THEN build_new_hooks(Tail(hook_configs), new_hooks)
          ELSE build_new_hooks(
                 Tail(hook_configs),
                 Put(new_hooks, hc.event,
                     Append(GetOr(new_hooks, hc.event, <<>>),
                            matcher_group(hook_name, hc))))

\* an inner loop without the already_present test
append_every_group(event_groups, groups) == event_groups \o groups

\* an inner loop that lets the new group take the place of the one it matches
RECURSIVE overwrite_matching_groups(_, _)
overwrite_matching_groups(event_groups, groups) ==
    IF groups = <<>> THEN event_groups
    ELSE
      LET group == Head(groups)
          hit == {i \in 1..Len(event_groups) :
                     GetOr(event_groups[i], "matcher", None) = Get(group, "matcher")}
      IN  overwrite_matching_groups(
            IF hit = {} THEN Append(event_groups, group)
            ELSE [i \in 1..Len(event_groups) |->
                     IF i \in hit THEN group ELSE event_groups[i]],
            Tail(groups))

\* an inner loop that tests already_present on the list as it was before the
\* loop, without the groups this loop appended
append_missing_of_old(event_groups, groups) ==
    event_groups \o
    SelectSeq(groups,
              LAMBDA group : ~\E i \in 1..Len(event_groups) :
                  GetOr(event_groups[i], "matcher", None) = Get(group, "matcher"))

\* an inner loop that inserts a missing group at the head of the list
RECURSIVE prepend_missing_groups(_, _)
prepend_missing_groups(event_groups, groups) ==
    IF groups = <<>> THEN event_groups
    ELSE
      LET group == Head(groups)
          already_present ==
              \E i \in 1..Len(event_groups) :
                  GetOr(event_groups[i], "matcher", None) = Get(group, "matcher")
      IN  prepend_missing_groups(
            IF already_present THEN event_groups ELSE <<group>> \o event_groups,
            Tail(groups))

\* for group in groups: append unless a group with that matcher is there
RECURSIVE append_missing_groups(_, _)
append_missing_groups(event_groups, groups) ==
    IF groups = <<>> THEN event_groups
    ELSE
      LET group == Head(groups)
          already_present ==
              \E i \in 1..Len(event_groups) :
                  GetOr(event_groups[i], "matcher", None) = Get(group, "matcher")
      IN  append_missing_groups(
            IF already_present THEN event_groups ELSE Append(event_groups, group),
            Tail(groups))

\* for event, groups in new_hooks.items()
RECURSIVE merge_new_hooks(_, _)
merge_new_hooks(existing_hooks, new_hooks) ==
    IF new_hooks = <<>> THEN existing_hooks
    ELSE
      LET event == Head(new_hooks)[1]
          groups == Head(new_hooks)[2]
          with_event == IF Has(existing_hooks, event) THEN existing_hooks
                        ELSE Put(existing_hooks, event, <<>>)
      IN  merge_new_hooks(
            Put(with_event, event,
                append_missing_groups(Get(with_event, event), groups)),
            Tail(new_hooks))

\* the first loop reaches a hooks_config it cannot read: the call ends in an
\* uncaught AttributeError, before the dry-run test and before any file I/O
update_settings_hooks_raises(hook_configs, skip) ==
    /\ ~skip
    /\ \E i \in 1..Len(hook_configs) :
          get_raises(DGet(load_json(hook_configs[i][2]), "hooks_config", <<>>))

\* a hooks merger that does not look at the skip flag
update_settings_hooks_unskippable(settings_file, hook_configs, dry, skip) ==
    IF hook_configs = <<>> THEN settings_file
    ELSE IF update_settings_hooks_raises(hook_configs, FALSE) THEN settings_file
    ELSE IF dry THEN settings_file
    ELSE
      LET new_hooks == build_new_hooks(hook_configs, <<>>)
          existing == load_json(settings_file)
          existing_hooks == GetOr(existing, "hooks", <<>>)
      IN  _atomic_write_json(
            Put(existing, "hooks", merge_new_hooks(existing_hooks, new_hooks)))

update_settings_hooks(settings_file, hook_configs, dry, skip) ==
    IF skip THEN settings_file
    ELSE IF hook_configs = <<>> THEN settings_file
    ELSE IF update_settings_hooks_raises(hook_configs, skip) THEN settings_file
    ELSE IF dry THEN settings_file
    ELSE
      LET new_hooks == build_new_hooks(hook_configs, <<>>)
          existing == load_json(settings_file)
          existing_hooks == GetOr(existing, "hooks", <<>>)
      IN  _atomic_write_json(
            Put(existing, "hooks", merge_new_hooks(existing_hooks, new_hooks)))

\* -------------------------------------------------------------- MCP merger
\* a loop without the `name not in existing_servers` test
RECURSIVE assign_every_server(_, _)
assign_every_server(existing_servers, mcp_configs) ==
    IF mcp_configs = <<>> THEN existing_servers
    ELSE assign_every_server(
           Put(existing_servers, Head(mcp_configs)[1], Head(mcp_configs)[2]),
           Tail(mcp_configs))

\* a loop that builds mcpServers from the supplied names alone, dropping the
\* servers this run does not supply
RECURSIVE only_supplied_servers(_, _)
only_supplied_servers(existing_servers, mcp_configs) ==
    IF mcp_configs = <<>> THEN <<>>
    ELSE
      LET name == Head(mcp_configs)[1]
          server_def == Head(mcp_configs)[2]
      IN  << <<name, GetOr(existing_servers, name, server_def)>> >>
          \o only_supplied_servers(existing_servers, Tail(mcp_configs))

\* for name, server_def in mcp_configs: add the names that are not keys yet
RECURSIVE append_missing_servers(_, _)
append_missing_servers(existing_servers, mcp_configs) ==
    IF mcp_configs = <<>> THEN existing_servers
    ELSE
      LET name == Head(mcp_configs)[1]
          server_def == Head(mcp_configs)[2]
      IN  append_missing_servers(
            IF Has(existing_servers, name) THEN existing_servers
            ELSE Put(existing_servers, name, server_def),
            Tail(mcp_configs))

\* an MCP merger whose target is the settings file in either mode
update_settings_mcp_one_target(settings_file, mcp_file, mcp_configs, project, dry, skip) ==
    LET unchanged == [settings |-> settings_file, mcp |-> mcp_file] IN
    IF skip THEN unchanged
    ELSE IF mcp_configs = <<>> THEN unchanged
    ELSE IF dry THEN unchanged
    ELSE
      LET existing == load_json(settings_file)
          existing_servers == GetOr(existing, "mcpServers", <<>>)
      IN  [settings |-> _atomic_write_json(
                          Put(existing, "mcpServers",
                              append_missing_servers(existing_servers, mcp_configs))),
           mcp |-> mcp_file]

\* the two files after the call; project says whether project_path is set
update_settings_mcp(settings_file, mcp_file, mcp_configs, project, dry, skip) ==
    LET unchanged == [settings |-> settings_file, mcp |-> mcp_file] IN
    IF skip THEN unchanged
    ELSE IF mcp_configs = <<>> THEN unchanged
    ELSE IF dry THEN unchanged
    ELSE
      LET target == IF project THEN mcp_file ELSE settings_file
          existing == load_json(target)
          existing_servers == GetOr(existing, "mcpServers", <<>>)
          written == _atomic_write_json(
                       Put(existing, "mcpServers",
                           append_missing_servers(existing_servers, mcp_configs)))
      IN  IF project THEN [settings |-> settings_file, mcp |-> written]
          ELSE [settings |-> written, mcp |-> mcp_file]

\* a loop that empties mcpServers once one of the names is a key
delete_every_server(servers, server_names) ==
    IF \E i \in 1..Len(server_names) : Has(servers, server_names[i]) THEN <<>>
    ELSE servers

\* for name in server_names: del servers[name] when it is a key
RECURSIVE delete_servers(_, _)
delete_servers(servers, server_names) ==
    IF server_names = <<>> THEN servers
    ELSE delete_servers(
           IF Has(servers, Head(server_names)) THEN Del(servers, Head(server_names))
           ELSE servers,
           Tail(server_names))

\* the names the loop appends to `removed`
RECURSIVE removed_names(_, _)
removed_names(servers, server_names) ==
    IF server_names = <<>> THEN <<>>
    ELSE IF Has(servers, Head(server_names))
         THEN <<Head(server_names)>>
              \o removed_names(Del(servers, Head(server_names)), Tail(server_names))
         ELSE removed_names(servers, Tail(server_names))

remove_settings_mcp(settings_file, server_names, dry) ==
    IF server_names = <<>> THEN settings_file
    ELSE IF dry THEN settings_file
    ELSE
      LET existing == load_json(settings_file)
          servers == GetOr(existing, "mcpServers", <<>>)
      IN  IF removed_names(servers, server_names) # <<>>
          THEN _atomic_write_json(
                 Put(existing, "mcpServers", delete_servers(servers, server_names)))
          ELSE settings_file

\* what the routine prints: nothing for an empty list, else the dry-run line,
\* the names removed, or that none of them was found
remove_settings_mcp_prints(settings_file, server_names, dry) ==
    IF server_names = <<>> THEN <<>>
    ELSE IF dry THEN <<"Would remove from mcpServers", server_names>>
    ELSE
      LET removed == removed_names(GetOr(load_json(settings_file), "mcpServers", <<>>),
                                   server_names)
      IN  IF removed # <<>> THEN <<"Removed from mcpServers", removed>>
          ELSE <<"No matching MCP servers found", <<>> >>

\* ------------------------------------------------ file operations of a call
\* the load_json and _atomic_write_json calls each routine makes on
\* settings.json and .mcp.json, as (operation, file) pairs
update_settings_permissions_io(dry, skip) ==
    IF skip \/ dry THEN {}
    ELSE {<<"read", "settings.json">>, <<"write", "settings.json">>}

update_settings_hooks_io(hook_configs, dry, skip) ==
    IF skip \/ hook_configs = <<>> THEN {}
    ELSE IF update_settings_hooks_raises(hook_configs, skip) THEN {}
    ELSE IF dry THEN {}
    ELSE {<<"read", "settings.json">>, <<"write", "settings.json">>}

update_settings_mcp_io(mcp_configs, project, dry, skip) ==
    IF skip \/ mcp_configs = <<>> \/ dry THEN {}
    ELSE LET target_path == IF project THEN ".mcp.json" ELSE "settings.json"
         IN  {<<"read", target_path>>, <<"write", target_path>>}

\* a teardown that looks the names up in <project>/.mcp.json as well
remove_settings_mcp_io_both_files(settings_file, server_names, dry) ==
    IF server_names = <<>> \/ dry THEN {}
    ELSE IF removed_names(GetOr(load_json(settings_file), "mcpServers", <<>>),
                          server_names) # <<>>
         THEN {<<"read", "settings.json">>, <<"write", "settings.json">>,
               <<"read", ".mcp.json">>}
         ELSE {<<"read", "settings.json">>, <<"read", ".mcp.json">>}

remove_settings_mcp_io(settings_file, server_names, dry) ==
    IF server_names = <<>> \/ dry THEN {}
    ELSE IF removed_names(GetOr(load_json(settings_file), "mcpServers", <<>>),
                          server_names) # <<>>
         THEN {<<"read", "settings.json">>, <<"write", "settings.json">>}
         ELSE {<<"read", "settings.json">>}

\* path.with_suffix(".tmp") of the two targets: settings.tmp and .mcp.tmp.
\* A call that writes a target goes through write_text on its temp file and
\* os.replace, which takes the temp file away; any other call leaves it alone
tmp_after(tmp_files, ops) ==
    [settings |-> IF <<"write", "settings.json">> \in ops THEN AbsentFile
                  ELSE tmp_files.settings,
     mcp |-> IF <<"write", ".mcp.json">> \in ops THEN AbsentFile
             ELSE tmp_files.mcp]

\* ---------------------------------------------- config resolver and overlay
DEFAULTS == [enabled |-> TRUE, scope |-> "global", on_path |-> FALSE]

\* {**b, **a}: the left operand wins
MergeLeft(a, b) ==
    [k \in DOMAIN a \cup DOMAIN b |-> IF k \in DOMAIN a THEN a[k] ELSE b[k]]

\* {**a, **b}
Merge(a, b) ==
    [k \in DOMAIN a \cup DOMAIN b |-> IF k \in DOMAIN b THEN b[k] ELSE a[k]]

\* functools.reduce(lambda a, b: {**a, **b}, layers)
RECURSIVE reduce_merge(_)
reduce_merge(layers) ==
    IF Len(layers) = 1 THEN layers[1]
    ELSE Merge(reduce_merge(SubSeq(layers, 1, Len(layers) - 1)), layers[Len(layers)])

\* the five layers, lowest priority first; files is the record of the four
\* deploy.json / deploy.local.json files of the repo root and the item
config_layers(files) ==
    << DEFAULTS,
       load_json(files.repo_deploy),
       load_json(files.repo_local),
       load_json(files.item_deploy),
       load_json(files.item_local) >>

resolve_config(files) == reduce_merge(config_layers(files))

\* Path(path).read_text() raises something load_json does not catch (it
\* catches FileNotFoundError and json.JSONDecodeError): the path is a
\* directory, may not be read, or holds bytes that are not UTF-8
UnreadableFile == [state |-> "unreadable", doc |-> <<>>]

\* valid JSON that is not an object (an array, a string, a number, null):
\* load_json returns the value as it is
NotObjectFile == [state |-> "not_object", doc |-> <<>>]

\* load_json(path) ends in an exception
load_json_raises(f) == f.state = "unreadable"

\* {**a, **b} with b the value load_json returned: TypeError, not a mapping
merge_raises(f) == f.state = "not_object"

\* building the layers or reducing them ends in an exception
resolve_config_raises(files) ==
    \E layer \in DOMAIN files : load_json_raises(files[layer]) \/ merge_raises(files[layer])

\* the permission-group variant: the same five layers, with <name>.json and
\* <name>.local.json as the item's two files
_resolve_permission_config(files) == reduce_merge(config_layers(files))

\* an overlay that lets an item the profile does not list keep its config
overlay_listed_only(config, profile, item_type, item_name) ==
    IF DOMAIN profile = {} THEN config
    ELSE
      LET items == DGet(profile, item_type, <<>>) IN
      IF item_name \notin DOMAIN items THEN config
      ELSE
        LET item_overrides == items[item_name]
            allowed == [k \in {k \in DOMAIN item_overrides.vals :
                                  k \in {"enabled", "on_path"}}
                          |-> item_overrides.vals[k]]
        IN  Merge(config, allowed)

\* an overlay without the whitelist: every non-null key of the entry is merged
overlay_every_key(config, profile, item_type, item_name) ==
    IF DOMAIN profile = {} THEN config
    ELSE
      LET items == DGet(profile, item_type, <<>>) IN
      IF item_name \notin DOMAIN items THEN Merge(config, [enabled |-> FALSE])
      ELSE Merge(config, items[item_name].vals)

\* A profile entry is [vals |-> the keys with a non-null value, nulls |-> the
\* keys whose value is null]; `v is not None` is then membership in vals.
apply_profile_overrides(config, profile, item_type, item_name) ==
    IF DOMAIN profile = {} THEN config
    ELSE
      LET items == DGet(profile, item_type, <<>>) IN
      IF item_name \notin DOMAIN items THEN Merge(config, [enabled |-> FALSE])
      ELSE
        LET item_overrides == items[item_name]
            allowed == [k \in {k \in DOMAIN item_overrides.vals :
                                  k \in {"enabled", "on_path"}}
                          |-> item_overrides.vals[k]]
        IN  Merge(config, allowed)

\* ------------------------------------------------------------------ filter
\* a filter that applies the exclude list next to the include list
is_filtered_out_by_either(name, include, exclude) ==
    \/ include # <<>> /\ name \notin Range(include)
    \/ exclude # <<>> /\ name \in Range(exclude)

is_filtered_out(name, include, exclude) ==
    IF include # <<>> THEN name \notin Range(include)
    ELSE IF exclude # <<>> THEN name \in Range(exclude)
    ELSE FALSE

\* ------------------------------------------------------ pre-deployment gate
\* (config, skip_reason) and the profile_new_items list after the call; a
\* config of None is the empty object here
pre_deploy_checks(item_name, item_type, files, profile, new_items, include, exclude) ==
    IF is_filtered_out(item_name, include, exclude)
    THEN [config |-> <<>>, skip_reason |-> "filtered out", profile_new_items |-> new_items]
    ELSE
      LET resolved == resolve_config(files)
          noted == IF DOMAIN profile # {}
                      /\ item_name \notin DOMAIN DGet(profile, item_type, <<>>)
                   THEN Append(new_items, <<item_name, item_type>>)
                   ELSE new_items
          config == apply_profile_overrides(resolved, profile, item_type, item_name)
      IN  IF ~DGet(config, "enabled", TRUE)
          THEN [config |-> <<>>, skip_reason |-> "disabled by config",
                profile_new_items |-> noted]
          ELSE [config |-> config, skip_reason |-> None, profile_new_items |-> noted]

\* ------------------------------------------------------------------- state
VARIABLES
    settings,          \* settings.json
    mcp_json,          \* <project>/.mcp.json
    dry_run,           \* args.dry_run of the invocations of this behaviour
    skip_permissions,  \* args.skip_permissions
    pre_settings,      \* settings.json when the last call started
    pre_mcp_json,      \* .mcp.json when the last call started
    last,              \* the last call and its arguments
    raised,            \* the last call ended in an uncaught exception
    io,                \* the reads and writes the last call made on the two files
    report,            \* what the last call of the removal routine printed
    tmp,               \* settings.tmp and .mcp.tmp, the temp files of the two targets
    pre_tmp,           \* the temp files when the last call started
    repeat,            \* the last call had the arguments of the call before it
    unowned0,          \* the caller-owned part of settings.json at the start
    runs,              \* calls made so far
    files,             \* the deploy.json / deploy.local.json of repo root and item
    profile_data,      \* the loaded profile document, {} when none is active
    item,              \* the item looked at: its kind and its directory name
    filters,           \* args.include and args.exclude
    config,            \* what resolve_config returned
    overlaid,          \* what apply_profile_overrides returned for config
    checks,            \* what pre_deploy_checks returned
    calls,             \* which of the resolver, overlay and gate calls have been made
    failed,            \* the calls among them that ended in an exception
    perm_config,       \* what _resolve_permission_config returned
    inodes,            \* the text of every file body created so far, by inode number
    dir,               \* the inode settings.json and settings.tmp name, 0 for no file
    pc,                \* where each running instance of the tool is in its merger call
    job,               \* the merger call each instance makes
    pre,               \* the text of settings.json when each instance's call started
    data,              \* the document each instance hands to _atomic_write_json
    fd,                \* the inode each instance has open for writing, 0 for none
    args,              \* the parsed command line of a run of main()
    repo,              \* the repository the run deploys: its hooks and the profile file
    main_pc,           \* how far main() has got
    exit_code,         \* the exit status of the run, -1 while it runs
    stderr,            \* the error lines printed so far
    profile,           \* what load_profile returned
    deployed,          \* the hooks deployed so far, in order
    links,             \* the symlinks made under hooks_base
    collected,         \* the deployed_configs, hook_configs and profile_new_items lists
    package,           \* which of the two deploy packages profile_diff is taken from
    discover,          \* the discover output handed to profile_diff
    declared,          \* the profile document handed to profile_diff
    output,            \* what profile_diff returned
    diff_pc,           \* whether profile_diff has been called and has returned
    stale_items,       \* the stale items of the drift check, as (name, kind) pairs
    perm_files,      \* the list of config files handed to collect_permissions
    permission_lists,  \* the (allows, denies) pair collect_permissions returned
    collect_pc         \* whether collect_permissions has been called and has returned

settings_vars == <<settings, mcp_json, dry_run, skip_permissions, pre_settings,
                   pre_mcp_json, last, raised, io, report, tmp,
                   pre_tmp, repeat, unowned0, runs>>

config_vars == <<files, profile_data, item, filters, config, overlaid, checks, calls,
                 failed, perm_config>>

atomic_vars == <<inodes, dir, pc, job, pre, data, fd>>

main_vars == <<args, repo, main_pc, exit_code, stderr, profile, deployed, links, collected>>

diff_vars == <<package, discover, declared, output, diff_pc, stale_items,
               perm_files, permission_lists, collect_pc>>

vars == <<settings_vars, config_vars, atomic_vars, main_vars, diff_vars>>

\* ----------------------------------------------------------- values in use
HandCommand == << <<"type", "command">>, <<"command", <<"usr", "bin", "true">> >> >>

CustomEventGroup == << <<"matcher", "Read">>, <<"hooks", <<HandCommand>> >> >>
HandBashGroup == << <<"matcher", "Bash">>, <<"hooks", <<HandCommand>> >> >>
HandMatcherlessGroup == << <<"hooks", <<HandCommand>> >> >>

HandServer == << <<"command", "npx">>, <<"args", <<"manual">> >> >>
RepoServer == << <<"command", "npx">>, <<"args", <<"repo">> >> >>
RepoServerB == << <<"command", "node">> >>

\* the settings documents a behaviour may start from
SeededSettings == << <<"env", "TEST=preserved">>, <<"model", "test-model">> >>

ManualSettings ==
    << <<"env", "TEST=preserved">>,
       <<"permissions", << <<"defaultMode", "plan">>,
                           <<"allow", <<"Bash(my-custom-tool *)", "Bash(git status)">> >>,
                           <<"deny", <<>> >> >> >>,
       <<"hooks", << <<"CustomEvent", <<CustomEventGroup>> >> >> >>,
       <<"mcpServers", << <<"manual-server", HandServer>> >> >>,
       <<"model", "test-model">> >>

ClashSettings ==
    << <<"hooks", << <<"PreToolUse", <<HandBashGroup, HandMatcherlessGroup>> >> >> >>,
       <<"mcpServers", << <<"srvA", HandServer>> >> >>,
       <<"permissions", << <<"allow", <<"Bash(wc -l)", "Bash(wc -l)", "Bash(lsof -i)">> >> >> >>,
       <<"model", "test-model">> >>

InitialSettings ==
    {AbsentFile, CorruptFile, File(<<>>), File(SeededSettings),
     File(ManualSettings), File(ClashSettings)}

InitialMcpJson ==
    {AbsentFile, File(<< <<"mcpServers", << <<"srvA", HandServer>> >> >> >>)}

\* the temp files a behaviour may start with: none, or the ones an interrupted
\* earlier run left behind
NoTmp == [settings |-> AbsentFile, mcp |-> AbsentFile]
StaleTmp == [settings |-> File(SeededSettings), mcp |-> File(<<>>)]
InitialTmp == {NoTmp, StaleTmp}

\* the permission strings this run's config files may declare
AllowUniverse == {"Bash(git status)", "Bash(docker ps)", "Bash(lsof -i)"}
DenyUniverse == {"Read(.env)"}

AllowInputs == {A \in SUBSET AllowUniverse : Cardinality(A) <= MaxNewAllows}
DenyInputs == SUBSET DenyUniverse

\* hook directories, in the order sorted(hooks_dir.iterdir()) visits them
HookNames == <<"h1", "h2", "h3">>

\* what the deploy.json of each hook directory may hold
HookDeployJson(hook_name) ==
    IF hook_name = "h1" THEN
      { File([hooks_config |->
                [event |-> "PreToolUse", matcher |-> "Bash", command_script |-> "run.sh"]]),
        File([hooks_config |->
                [event |-> "Stop", command_script |-> "notify.sh", async |-> TRUE]]),
        File([enabled |-> TRUE]) }
    ELSE IF hook_name = "h2" THEN
      { File([hooks_config |->
                [event |-> "PreToolUse", matcher |-> "Bash", command_script |-> "run.sh"]]),
        File([hooks_config |->
                [event |-> "PreToolUse", matcher |-> "Edit", command_script |-> "fmt.sh",
                 async |-> TRUE, timeout |-> 60]]),
        File([hooks_config |-> JsonArray(<<
                [event |-> "UserPromptSubmit", matcher |-> "Write",
                 command_script |-> "notify.sh", async |-> TRUE],
                [event |-> "Stop", command_script |-> "notify.sh", async |-> TRUE]>>)]) }
    ELSE
      { File([hooks_config |->
                [event |-> "PostToolUse", matcher |-> "Bash", async |-> FALSE]]),
        File([hooks_config |->
                [event |-> "Stop", matcher |-> "", command_script |-> "run.sh",
                 async |-> FALSE, timeout |-> 5]]) }

\* (hook_name, config_path) lists over the first n hook directories
HookConfigsOfLen(n) ==
    {hcs \in [1..n -> UNION {{HookNames[i]} \X HookDeployJson(HookNames[i]) : i \in 1..n}] :
        \A i \in 1..n : hcs[i][1] = HookNames[i]}

HookConfigInputs ==
    UNION {HookConfigsOfLen(n) : n \in 0..MaxHookConfigs}

\* (server_name, server_def) lists, in directory order
McpConfigInputs ==
    { <<>>,
      << <<"srvA", RepoServer>> >>,
      << <<"srvB", RepoServerB>> >>,
      << <<"srvA", RepoServer>>, <<"srvB", RepoServerB>> >> }

ServerNameInputs ==
    { <<>>, <<"srvA">>, <<"srvA", "ghost">>, <<"manual-server", "srvB">> }

\* the part of a settings file this tool does not own: the top-level keys
\* other than permissions, hooks and mcpServers, and the keys under
\* permissions other than allow and deny
Unowned(f) ==
    LET d == load_json(f)
        top == SelectSeq(d, LAMBDA kv : kv[1] \notin {"permissions", "hooks", "mcpServers"})
        perms == SelectSeq(GetOr(d, "permissions", <<>>),
                           LAMBDA kv : kv[1] \notin {"allow", "deny"})
    IN  <<top, perms>>

NoFiles ==
    [repo_deploy |-> AbsentFile, repo_local |-> AbsentFile,
     item_deploy |-> AbsentFile, item_local |-> AbsentFile]

NoChecks == [config |-> <<>>, skip_reason |-> None, profile_new_items |-> <<>>]

NoCall ==
    [op |-> "none", allows |-> <<>>, denies |-> <<>>, hook_configs |-> <<>>,
     mcp_configs |-> <<>>, project |-> FALSE, server_names |-> <<>>]

\* the instances of the tool that may run at the same time
Instances == {1, 2}

\* the state of each part of the model while another part is being run
SettingsAtRest ==
    /\ settings = AbsentFile
    /\ mcp_json = AbsentFile
    /\ dry_run = FALSE
    /\ skip_permissions = FALSE
    /\ pre_settings = AbsentFile
    /\ pre_mcp_json = AbsentFile
    /\ last = NoCall
    /\ raised = FALSE
    /\ io = {}
    /\ report = <<>>
    /\ tmp = NoTmp
    /\ pre_tmp = NoTmp
    /\ repeat = FALSE
    /\ unowned0 = Unowned(AbsentFile)
    /\ runs = 0

ConfigAtRest ==
    /\ files = NoFiles
    /\ profile_data = <<>>
    /\ item = [type |-> "skills", name |-> "tool"]
    /\ filters = [include |-> <<>>, exclude |-> <<>>]
    /\ config = <<>>
    /\ overlaid = <<>>
    /\ checks = NoChecks
    /\ calls = {}
    /\ failed = {}
    /\ perm_config = <<>>

AtomicAtRest ==
    /\ inodes = <<>>
    /\ dir = [target |-> 0, tmp |-> 0]
    /\ pc = [i \in Instances |-> "idle"]
    /\ job = [i \in Instances |-> NoCall]
    /\ pre = [i \in Instances |-> [exists |-> FALSE, text |-> <<>>]]
    /\ data = [i \in Instances |-> <<>>]
    /\ fd = [i \in Instances |-> 0]

NoArgs ==
    [help |-> FALSE, include |-> <<>>, exclude |-> <<>>, teardown_mcp |-> <<>>,
     profile |-> "", discover |-> FALSE]

NoRepo == [profile_file |-> AbsentFile, skills |-> <<>>, hooks |-> <<>>]

NoProfile == [path |-> "", data |-> <<>>]

NothingCollected == [deployed_configs |-> <<>>, hook_configs |-> <<>>, new_items |-> <<>>]

MainAtRest ==
    /\ args = NoArgs
    /\ repo = NoRepo
    /\ main_pc = "start"
    /\ exit_code = -1
    /\ stderr = <<>>
    /\ profile = NoProfile
    /\ deployed = <<>>
    /\ links = {}
    /\ collected = NothingCollected

CollectAtRest ==
    /\ perm_files = <<>>
    /\ permission_lists = <<<<>>, <<>>>>
    /\ collect_pc = "start"

DiffAtRest ==
    /\ CollectAtRest
    /\ package = "deploy"
    /\ discover = [vals |-> <<>>, nulls |-> {}]
    /\ declared = [vals |-> <<>>, nulls |-> {}]
    /\ output = [added |-> <<>>, removed |-> <<>>]
    /\ diff_pc = "start"
    /\ stale_items = <<>>

Init ==
    /\ settings \in InitialSettings
    /\ mcp_json \in InitialMcpJson
    /\ dry_run \in BOOLEAN
    /\ skip_permissions \in BOOLEAN
    /\ pre_settings = settings
    /\ pre_mcp_json = mcp_json
    /\ last = NoCall
    /\ raised = FALSE
    /\ io = {}
    /\ report = <<>>
    /\ tmp \in InitialTmp
    /\ pre_tmp = tmp
    /\ repeat = FALSE
    /\ unowned0 = Unowned(settings)
    /\ runs = 0
    /\ ConfigAtRest
    /\ AtomicAtRest
    /\ MainAtRest
    /\ DiffAtRest

\* bookkeeping shared by the calls
Called(call) ==
    /\ runs' = runs + 1
    /\ pre_settings' = settings
    /\ pre_mcp_json' = mcp_json
    /\ pre_tmp' = tmp
    /\ last' = call
    /\ repeat' = (call = last)
    /\ UNCHANGED <<dry_run, skip_permissions, unowned0>>
    /\ UNCHANGED <<config_vars, atomic_vars, main_vars, diff_vars>>

\* update_settings_permissions(settings_file, allows, denies, ...) with the
\* lists collect_permissions returns
UpdateSettingsPermissions ==
    /\ runs < MaxRuns
    /\ \E A \in AllowInputs, D \in DenyInputs :
        LET allows == sorted_grouped(A)
            denies == sorted_grouped(D)
        IN  /\ settings' = update_settings_permissions(
                               settings, allows, denies, dry_run, skip_permissions)
            /\ raised' = FALSE
            /\ io' = update_settings_permissions_io(dry_run, skip_permissions)
            /\ tmp' = tmp_after(tmp, io')
            /\ UNCHANGED <<mcp_json, report>>
            /\ Called([NoCall EXCEPT !.op = "permissions",
                                     !.allows = allows, !.denies = denies])

UpdateSettingsHooks ==
    /\ runs < MaxRuns
    /\ \E hook_configs \in HookConfigInputs :
        /\ settings' = update_settings_hooks(
                           settings, hook_configs, dry_run, skip_permissions)
        /\ raised' = update_settings_hooks_raises(hook_configs, skip_permissions)
        /\ io' = update_settings_hooks_io(hook_configs, dry_run, skip_permissions)
        /\ tmp' = tmp_after(tmp, io')
        /\ UNCHANGED <<mcp_json, report>>
        /\ Called([NoCall EXCEPT !.op = "hooks", !.hook_configs = hook_configs])

UpdateSettingsMcp ==
    /\ runs < MaxRuns
    /\ \E mcp_configs \in McpConfigInputs, project \in BOOLEAN :
        LET after == update_settings_mcp(settings, mcp_json, mcp_configs, project,
                                         dry_run, skip_permissions)
        IN  /\ settings' = after.settings
            /\ mcp_json' = after.mcp
            /\ raised' = FALSE
            /\ io' = update_settings_mcp_io(mcp_configs, project, dry_run,
                                            skip_permissions)
            /\ tmp' = tmp_after(tmp, io')
            /\ UNCHANGED report
            /\ Called([NoCall EXCEPT !.op = "mcp", !.mcp_configs = mcp_configs,
                                     !.project = project])

RemoveSettingsMcp ==
    /\ runs < MaxRuns
    /\ \E server_names \in ServerNameInputs :
        /\ settings' = remove_settings_mcp(settings, server_names, dry_run)
        /\ raised' = FALSE
        /\ io' = remove_settings_mcp_io(settings, server_names, dry_run)
        /\ report' = remove_settings_mcp_prints(settings, server_names, dry_run)
        /\ tmp' = tmp_after(tmp, io')
        /\ UNCHANGED mcp_json
        /\ Called([NoCall EXCEPT !.op = "remove", !.server_names = server_names])

Next ==
    \/ UpdateSettingsPermissions
    \/ UpdateSettingsHooks
    \/ UpdateSettingsMcp
    \/ RemoveSettingsMcp

Spec == Init /\ [][Next]_vars

\* --------------------------------------- resolving and gating a single item
\* what each of the four layer files may hold
RepoDeployJson ==
    { AbsentFile,
      File([on_path |-> FALSE, permissions |-> [allow |-> <<"Bash(git status)">>]]),
      File([enabled |-> FALSE]) }

RepoDeployLocalJson ==
    { CorruptFile,
      File([on_path |-> TRUE]),
      File([scope |-> "project", permissions |-> [deny |-> <<"Read(.env)">>]]) }

ItemDeployJson ==
    { AbsentFile,
      File([on_path |-> TRUE, enabled |-> TRUE, dependencies |-> <<"jar-explore">>]),
      File([scope |-> "global", permissions |-> [allow |-> <<"Bash(docker ps)">>]]) }

ItemDeployLocalJson ==
    { AbsentFile,
      File([enabled |-> FALSE]),
      File([on_path |-> FALSE,
            permissions |-> [allow |-> <<>>, deny |-> <<"Bash(wc -l)">>]]) }

ConfigKeys == {"enabled", "scope", "on_path", "permissions", "dependencies", "mcp"}

Entry(vals, nulls) == [vals |-> vals, nulls |-> nulls]

\* the profile documents a run may have loaded
Profiles ==
    { <<>>,
      [skills |-> [tool |-> Entry([enabled |-> TRUE, scope |-> "project"], {})],
       hooks |-> <<>>, mcp |-> <<>>],
      [skills |-> [tool |-> Entry([enabled |-> FALSE, on_path |-> TRUE,
                                   permissions |-> [allow |-> <<"Bash(rm)">>]], {})]],
      [project_path |-> "/proj",
       skills |-> [tool |-> Entry([on_path |-> TRUE], {"enabled"}),
                   gone |-> Entry(<<>>, {})],
       hooks |-> [tool |-> Entry([enabled |-> TRUE], {"on_path"})]] }

ItemKinds == {"skills", "hooks"}
ItemNames == {"tool", "extra"}

Filters ==
    { [include |-> <<>>, exclude |-> <<>>],
      [include |-> <<"tool">>, exclude |-> <<>>],
      [include |-> <<>>, exclude |-> <<"tool">>],
      [include |-> <<"tool">>, exclude |-> <<"tool">>],
      [include |-> <<"extra", "other">>, exclude |-> <<"tool">>],
      [include |-> <<>>, exclude |-> <<"other", "extra">>] }

InitConfig ==
    /\ SettingsAtRest
    /\ AtomicAtRest
    /\ MainAtRest
    /\ DiffAtRest
    /\ files \in [repo_deploy : RepoDeployJson, repo_local : RepoDeployLocalJson,
                  item_deploy : ItemDeployJson, item_local : ItemDeployLocalJson]
    /\ profile_data \in Profiles
    /\ item \in [type : ItemKinds, name : ItemNames]
    /\ filters \in Filters
    /\ config = <<>>
    /\ overlaid = <<>>
    /\ checks = NoChecks
    /\ calls = {}
    /\ failed = {}
    /\ perm_config = <<>>

\* a call that ends in an exception returns nothing
ResolveConfig ==
    /\ "resolve_config" \notin calls
    /\ IF resolve_config_raises(files)
       THEN /\ config' = config
            /\ failed' = failed \cup {"resolve_config"}
       ELSE /\ config' = resolve_config(files)
            /\ failed' = failed
    /\ calls' = calls \cup {"resolve_config"}
    /\ UNCHANGED <<files, profile_data, item, filters, overlaid, checks, perm_config>>
    /\ UNCHANGED <<settings_vars, atomic_vars, main_vars, diff_vars>>

ResolvePermissionConfig ==
    /\ "_resolve_permission_config" \notin calls
    /\ IF resolve_config_raises(files)
       THEN /\ perm_config' = perm_config
            /\ failed' = failed \cup {"_resolve_permission_config"}
       ELSE /\ perm_config' = _resolve_permission_config(files)
            /\ failed' = failed
    /\ calls' = calls \cup {"_resolve_permission_config"}
    /\ UNCHANGED <<files, profile_data, item, filters, config, overlaid, checks>>
    /\ UNCHANGED <<settings_vars, atomic_vars, main_vars, diff_vars>>

\* the overlay, applied to the resolved config as pre_deploy_checks does
ApplyProfileOverrides ==
    /\ "resolve_config" \in calls \ failed
    /\ "apply_profile_overrides" \notin calls
    /\ overlaid' = apply_profile_overrides(config, profile_data, item.type, item.name)
    /\ calls' = calls \cup {"apply_profile_overrides"}
    /\ UNCHANGED <<files, profile_data, item, filters, config, checks, failed, perm_config>>
    /\ UNCHANGED <<settings_vars, atomic_vars, main_vars, diff_vars>>

PreDeployChecks ==
    /\ "pre_deploy_checks" \notin calls
    /\ IF ~is_filtered_out(item.name, filters.include, filters.exclude)
          /\ resolve_config_raises(files)
       THEN /\ checks' = checks
            /\ failed' = failed \cup {"pre_deploy_checks"}
       ELSE /\ checks' = pre_deploy_checks(item.name, item.type, files, profile_data,
                                           <<>>, filters.include, filters.exclude)
            /\ failed' = failed
    /\ calls' = calls \cup {"pre_deploy_checks"}
    /\ UNCHANGED <<files, profile_data, item, filters, config, overlaid, perm_config>>
    /\ UNCHANGED <<settings_vars, atomic_vars, main_vars, diff_vars>>

NextConfig ==
    \/ ResolveConfig
    \/ ResolvePermissionConfig
    \/ ApplyProfileOverrides
    \/ PreDeployChecks

SpecConfig == InitConfig /\ [][NextConfig]_vars

\* ------------------------------------------- layer files in every state
\* a layer file may be missing, not valid JSON, unreadable, JSON that is not
\* an object, or an object
LayerFiles(objects) ==
    {AbsentFile, CorruptFile, UnreadableFile, NotObjectFile} \cup objects

InitLayers ==
    /\ SettingsAtRest
    /\ AtomicAtRest
    /\ MainAtRest
    /\ DiffAtRest
    /\ files \in [repo_deploy : LayerFiles({File([enabled |-> FALSE])}),
                  repo_local : LayerFiles({File([on_path |-> TRUE])}),
                  item_deploy : LayerFiles({File([scope |-> "global", enabled |-> TRUE])}),
                  item_local : LayerFiles({File([on_path |-> FALSE])})]
    /\ profile_data = <<>>
    /\ item = [type |-> "skills", name |-> "tool"]
    /\ filters = [include |-> <<>>, exclude |-> <<>>]
    /\ config = <<>>
    /\ overlaid = <<>>
    /\ checks = NoChecks
    /\ calls = {}
    /\ failed = {}
    /\ perm_config = <<>>

SpecLayers == InitLayers /\ [][NextConfig]_vars

\* ----------------------------------- _atomic_write_json, one file operation at a time
\* json.dumps(data, indent=2) + "\n": the text of a document as a sequence of
\* units, an opening brace, one unit for each top-level member, a closing
\* brace. Offsets and lengths of a text count units.
dumps(d) == << <<"{">> >> \o d \o << <<"}">> >>

\* json.loads takes a text that is one whole object and nothing else
well_formed(text) ==
    /\ Len(text) >= 2
    /\ text[1] = <<"{">>
    /\ text[Len(text)] = <<"}">>
    /\ \A i \in 2..(Len(text) - 1) : Len(text[i]) = 2

loads(text) == SubSeq(text, 2, Len(text) - 1)

\* a text json.loads refuses: a document cut short
CutShortText == << <<"{">> >>

\* the text a file of the settings part holds
text_of(f) == IF f.state = "ok" THEN dumps(f.doc) ELSE CutShortText

\* load_json(path) where path names inode ino, 0 for no file
load_json_at(ino) ==
    IF ino = 0 THEN AbsentFile
    ELSE IF well_formed(inodes[ino]) THEN File(loads(inodes[ino]))
    ELSE CorruptFile

\* write(2) of text through a descriptor opened by open(path, "w"): the
\* descriptor's offset starts at 0 and what the file holds beyond the written
\* text stays
write_at_start(old, text) == text \o SubSeq(old, Len(text) + 1, Len(old))

\* a writer that skips the temp file and opens the target itself
with_suffix_none(name) == name

\* path.with_suffix(".tmp"): settings.json -> settings.tmp, for every instance
with_suffix_tmp(name) == "tmp"

\* a settings file that has a permissions section and nothing else, as the
\* permissions merger leaves it when it started from no file
PermissionsOnlySettings ==
    << <<"permissions", << <<"allow", <<"Bash(wc -l)">> >>, <<"deny", <<>> >> >> >> >>

InitialTargets ==
    {AbsentFile, CorruptFile, File(SeededSettings), File(PermissionsOnlySettings)}

\* the merger calls an instance may make
AtomicJobs ==
    { [NoCall EXCEPT !.op = "permissions", !.allows = <<"Bash(git status)">>],
      [NoCall EXCEPT !.op = "permissions", !.allows = <<"Bash(docker ps)">>,
                     !.denies = <<"Read(.env)">>],
      [NoCall EXCEPT !.op = "hooks",
                     !.hook_configs = << <<"h1", File([hooks_config |->
                         [event |-> "PreToolUse", matcher |-> "Bash",
                          command_script |-> "run.sh"]])>> >>],
      [NoCall EXCEPT !.op = "mcp", !.mcp_configs = << <<"srvB", RepoServerB>> >>],
      [NoCall EXCEPT !.op = "remove", !.server_names = <<"srvA", "ghost">>] }

\* the file a job leaves at settings_path, computed from the file it loaded
job_result(j, f) ==
    CASE j.op = "permissions" ->
           update_settings_permissions(f, j.allows, j.denies, dry_run, skip_permissions)
      [] j.op = "hooks" ->
           update_settings_hooks(f, j.hook_configs, dry_run, skip_permissions)
      [] j.op = "mcp" ->
           update_settings_mcp(f, AbsentFile, j.mcp_configs, FALSE, dry_run,
                               skip_permissions).settings
      [] j.op = "remove" -> remove_settings_mcp(f, j.server_names, dry_run)

\* whether the job gets to _atomic_write_json
job_writes(j, f) ==
    <<"write", "settings.json">> \in
      (CASE j.op = "permissions" ->
              update_settings_permissions_io(dry_run, skip_permissions)
         [] j.op = "hooks" ->
              update_settings_hooks_io(j.hook_configs, dry_run, skip_permissions)
         [] j.op = "mcp" ->
              update_settings_mcp_io(j.mcp_configs, FALSE, dry_run, skip_permissions)
         [] j.op = "remove" -> remove_settings_mcp_io(f, j.server_names, dry_run))

\* what a path names now: whether a file is there, and its text
at_path(name) ==
    [exists |-> dir[name] # 0,
     text |-> IF dir[name] = 0 THEN <<>> ELSE inodes[dir[name]]]

InitAtomic ==
    /\ SettingsAtRest
    /\ ConfigAtRest
    /\ MainAtRest
    /\ DiffAtRest
    /\ \E f \in InitialTargets, stale \in BOOLEAN :
          LET target_text == IF f = AbsentFile THEN <<>> ELSE <<text_of(f)>>
              tmp_text == IF stale THEN <<SubSeq(dumps(ManualSettings), 1, 5)>> ELSE <<>>
          IN  /\ inodes = target_text \o tmp_text
              /\ dir = [target |-> IF f = AbsentFile THEN 0 ELSE 1,
                        tmp |-> IF stale THEN Len(target_text) + 1 ELSE 0]
    /\ pc = [i \in Instances |-> "idle"]
    /\ job = [i \in Instances |-> NoCall]
    /\ pre = [i \in Instances |-> [exists |-> FALSE, text |-> <<>>]]
    /\ data = [i \in Instances |-> <<>>]
    /\ fd = [i \in Instances |-> 0]

\* the call up to _atomic_write_json: the early returns, load_json of the
\* target and the merge in memory
Begin(i) ==
    /\ pc[i] = "idle"
    /\ \E j \in AtomicJobs :
          LET f == load_json_at(dir.target) IN
          /\ job' = [job EXCEPT ![i] = j]
          /\ pre' = [pre EXCEPT ![i] = at_path("target")]
          /\ IF job_writes(j, f)
             THEN /\ data' = [data EXCEPT ![i] = job_result(j, f).doc]
                  /\ pc' = [pc EXCEPT ![i] = "computed"]
             ELSE /\ data' = data
                  /\ pc' = [pc EXCEPT ![i] = "returned"]
    /\ UNCHANGED <<inodes, dir, fd>>
    /\ UNCHANGED <<settings_vars, config_vars, main_vars, diff_vars>>

\* tmp.write_text, first part: open(tmp, "w") makes the file or empties it
OpenTmp(i) ==
    /\ pc[i] = "computed"
    /\ LET name == with_suffix_tmp("target") IN
       IF dir[name] = 0
       THEN /\ inodes' = Append(inodes, <<>>)
            /\ dir' = [dir EXCEPT ![name] = Len(inodes) + 1]
            /\ fd' = [fd EXCEPT ![i] = Len(inodes) + 1]
       ELSE /\ inodes' = [inodes EXCEPT ![dir[name]] = <<>>]
            /\ dir' = dir
            /\ fd' = [fd EXCEPT ![i] = dir[name]]
    /\ pc' = [pc EXCEPT ![i] = "open"]
    /\ UNCHANGED <<job, pre, data>>
    /\ UNCHANGED <<settings_vars, config_vars, main_vars, diff_vars>>

\* tmp.write_text, second part: the whole text goes to the open file, which
\* is then closed
WriteTmp(i) ==
    /\ pc[i] = "open"
    /\ inodes' = [inodes EXCEPT ![fd[i]] = write_at_start(@, dumps(data[i]))]
    /\ fd' = [fd EXCEPT ![i] = 0]
    /\ pc' = [pc EXCEPT ![i] = "written"]
    /\ UNCHANGED <<dir, job, pre, data>>
    /\ UNCHANGED <<settings_vars, config_vars, main_vars, diff_vars>>

\* the write ends part-way, by an OSError (disk full) or by the process
\* being killed: a proper prefix of the text is in the file
WriteTmpCutShort(i) ==
    /\ pc[i] = "open"
    /\ \E n \in 0..(Len(dumps(data[i])) - 1) :
          inodes' = [inodes EXCEPT ![fd[i]] =
                        write_at_start(@, SubSeq(dumps(data[i]), 1, n))]
    /\ fd' = [fd EXCEPT ![i] = 0]
    /\ pc' = [pc EXCEPT ![i] = "failed"]
    /\ UNCHANGED <<dir, job, pre, data>>
    /\ UNCHANGED <<settings_vars, config_vars, main_vars, diff_vars>>

\* os.replace(tmp, path): the target names the temp file's inode and the temp
\* name is gone; FileNotFoundError when there is no temp file
Replace(i) ==
    /\ pc[i] = "written"
    /\ LET name == with_suffix_tmp("target") IN
       IF dir[name] = 0
       THEN /\ dir' = dir
            /\ pc' = [pc EXCEPT ![i] = "raised"]
       ELSE /\ dir' = [[dir EXCEPT ![name] = 0] EXCEPT !.target = dir[name]]
            /\ pc' = [pc EXCEPT ![i] = "done"]
    /\ UNCHANGED <<inodes, job, pre, data, fd>>
    /\ UNCHANGED <<settings_vars, config_vars, main_vars, diff_vars>>

\* the process is killed between two file operations
Kill(i) ==
    /\ pc[i] \in {"computed", "open", "written"}
    /\ pc' = [pc EXCEPT ![i] = "killed"]
    /\ fd' = [fd EXCEPT ![i] = 0]
    /\ UNCHANGED <<inodes, dir, job, pre, data>>
    /\ UNCHANGED <<settings_vars, config_vars, main_vars, diff_vars>>

NextAtomic ==
    \E i \in Instances :
        \/ Begin(i)
        \/ OpenTmp(i)
        \/ WriteTmp(i)
        \/ WriteTmpCutShort(i)
        \/ Replace(i)
        \/ Kill(i)

SpecAtomic == InitAtomic /\ [][NextAtomic]_vars

\* ------------------------------------------------------------ a run of main()
\* load_profile(profile_arg, repo_root): ("", {}) without a profile argument,
\* (None, None) when the argument names no file, else the path and its document
load_profile_lenient(profile_arg, profile_file) ==
    IF profile_arg = "" THEN [path |-> "", data |-> <<>>]
    ELSE [path |-> profile_arg, data |-> load_json(profile_file)]

load_profile(profile_arg, profile_file) ==
    IF profile_arg = "" THEN [path |-> "", data |-> <<>>]
    ELSE IF profile_file.state = "absent" THEN [path |-> None, data |-> None]
    ELSE [path |-> profile_arg, data |-> load_json(profile_file)]

\* a collect_permissions that sorts each file's entries on their own and
\* appends the ones not seen in an earlier file
collect_permissions_file_by_file(config_files) ==
    LET entries(f, kind) ==
            {x \in Range(DGet(DGet(load_json(f), "permissions", <<>>), kind, <<>>)) : x # ""}
        seen(kind) ==
            LET acc[i \in 0..Len(config_files)] ==
                    IF i = 0 THEN <<>>
                    ELSE LET fresh(x) == x \notin Range(acc[i - 1])
                         IN  acc[i - 1] \o
                             SelectSeq(sorted_grouped(entries(config_files[i], kind)), fresh)
            IN  acc[Len(config_files)]
    IN  <<seen("allow"), seen("deny")>>

\* the non-empty entries of permissions.allow and permissions.deny of every
\* config file, each list deduplicated and in grouped order
collect_permissions(config_files) ==
    LET entries(f, kind) ==
            {x \in Range(DGet(DGet(load_json(f), "permissions", <<>>), kind, <<>>)) : x # ""}
        all_allows == UNION {entries(config_files[i], "allow") : i \in 1..Len(config_files)}
        all_denies == UNION {entries(config_files[i], "deny") : i \in 1..Len(config_files)}
    IN  <<sorted_grouped(all_allows), sorted_grouped(all_denies)>>

\* the four layer files of a hook directory in a repository without a
\* deploy.json or deploy.local.json of its own
hook_layers(hook_dir) ==
    [repo_deploy |-> AbsentFile, repo_local |-> AbsentFile,
     item_deploy |-> hook_dir.deploy, item_local |-> hook_dir.local]

\* for cfg_name in ("deploy.json", "deploy.local.json"): the ones that exist
collect_deploy_configs(hook_dir, deployed_configs) ==
    deployed_configs
      \o (IF hook_dir.deploy.state # "absent" THEN <<hook_dir.deploy>> ELSE <<>>)
      \o (IF hook_dir.local.state # "absent" THEN <<hook_dir.local>> ELSE <<>>)

\* a deploy_hook that takes hooks_config from the merged layers of the hook
hooks_config_from_layers(hook_dir) ==
    File(Merge(load_json(hook_dir.deploy), load_json(hook_dir.local)))

\* hook_deploy_json = hook_dir / "deploy.json"
hook_deploy_json(hook_dir) == hook_dir.deploy

\* deploy_hook(hook_dir, ...) on the lists so far: acc holds deployed, links
\* and collected
deploy_hook(hook_dir, profile_doc, include, exclude, dry, acc) ==
    LET gate == pre_deploy_checks(hook_dir.name, "hooks", hook_layers(hook_dir),
                                  profile_doc, acc.collected.new_items, include, exclude)
        source == hook_deploy_json(hook_dir)
    IN  IF gate.skip_reason # None
        THEN [acc EXCEPT !.collected.new_items = gate.profile_new_items]
        ELSE
          [deployed |-> Append(acc.deployed, hook_dir.name),
           links |-> IF dry THEN acc.links ELSE acc.links \cup {hook_dir.name},
           collected |->
             [deployed_configs |->
                  collect_deploy_configs(hook_dir, acc.collected.deployed_configs),
              hook_configs |->
                  IF source.state # "absent" /\ "hooks_config" \in DOMAIN load_json(source)
                  THEN Append(acc.collected.hook_configs, <<hook_dir.name, source>>)
                  ELSE acc.collected.hook_configs,
              new_items |-> gate.profile_new_items]]

\* for hook_dir in sorted(hooks_dir.iterdir())
RECURSIVE deploy_hooks(_, _, _, _, _, _)
deploy_hooks(hook_dirs, profile_doc, include, exclude, dry, acc) ==
    IF hook_dirs = <<>> THEN acc
    ELSE deploy_hooks(Tail(hook_dirs), profile_doc, include, exclude, dry,
                      deploy_hook(Head(hook_dirs), profile_doc, include, exclude, dry, acc))

\* project_path of the runs looked at: they are made without --project
project_path == None

\* the directory repo_root / "skills" / dep, when there is one
dep_dirs(skill_dirs, dep) ==
    SelectSeq(skill_dirs, LAMBDA d : d.name = dep)

\* for dep in deps: the config files of every dependency that is not empty
\* and has a directory
RECURSIVE collect_dependencies(_, _, _)
collect_dependencies(deps, skill_dirs, deployed_configs) ==
    IF deps = <<>> THEN deployed_configs
    ELSE
      LET dep == Head(deps)
          found == dep_dirs(skill_dirs, dep)
      IN  collect_dependencies(
            Tail(deps), skill_dirs,
            IF dep = "" \/ found = <<>> THEN deployed_configs
            ELSE collect_deploy_configs(found[1], deployed_configs))

\* a deploy_skill that collects the config files of a skill before the gate
deploy_skill_collecting_first(skill_dir, skill_dirs, profile_doc, include, exclude, dry, acc) ==
    LET gate == pre_deploy_checks(skill_dir.name, "skills", hook_layers(skill_dir),
                                  profile_doc, acc.collected.new_items, include, exclude)
        with_own == collect_deploy_configs(skill_dir, acc.collected.deployed_configs)
    IN  IF gate.skip_reason # None
           \/ (project_path = None /\ DGet(gate.config, "scope", None) = "project")
        THEN [acc EXCEPT !.collected.new_items = gate.profile_new_items,
                         !.collected.deployed_configs = with_own]
        ELSE
          [deployed |-> Append(acc.deployed, skill_dir.name),
           links |-> IF dry THEN acc.links ELSE acc.links \cup {skill_dir.name},
           collected |->
             [deployed_configs |->
                  collect_dependencies(DGet(gate.config, "dependencies", <<>>),
                                       skill_dirs, with_own),
              hook_configs |-> acc.collected.hook_configs,
              new_items |-> gate.profile_new_items]]

\* deploy_skill(skill_dir, ...) on the lists so far; skill_dirs are the
\* directories under repo_root / "skills"
deploy_skill(skill_dir, skill_dirs, profile_doc, include, exclude, dry, acc) ==
    LET gate == pre_deploy_checks(skill_dir.name, "skills", hook_layers(skill_dir),
                                  profile_doc, acc.collected.new_items, include, exclude)
    IN  IF gate.skip_reason # None
        THEN [acc EXCEPT !.collected.new_items = gate.profile_new_items]
        ELSE IF project_path = None /\ DGet(gate.config, "scope", None) = "project"
        THEN [acc EXCEPT !.collected.new_items = gate.profile_new_items]
        ELSE
          [deployed |-> Append(acc.deployed, skill_dir.name),
           links |-> IF dry THEN acc.links ELSE acc.links \cup {skill_dir.name},
           collected |->
             [deployed_configs |->
                  collect_dependencies(
                      DGet(gate.config, "dependencies", <<>>), skill_dirs,
                      collect_deploy_configs(skill_dir, acc.collected.deployed_configs)),
              hook_configs |-> acc.collected.hook_configs,
              new_items |-> gate.profile_new_items]]

\* for skill_dir in sorted(skills_dir.iterdir())
RECURSIVE deploy_skills(_, _, _, _, _, _, _)
deploy_skills(todo, skill_dirs, profile_doc, include, exclude, dry, acc) ==
    IF todo = <<>> THEN acc
    ELSE deploy_skills(Tail(todo), skill_dirs, profile_doc, include, exclude, dry,
                       deploy_skill(Head(todo), skill_dirs, profile_doc, include,
                                    exclude, dry, acc))

\* --------------------------------------------------------- the runs looked at
ExistingProfilePath == ".deploy-profiles/p.json"
NonexistentProfilePath == "/nonexistent/profile.json"

\* the command lines looked at: --help, --teardown-mcp and --discover one at
\* a time and without item filters, each with every profile argument
MainArgs ==
    { a \in [help : BOOLEAN,
             include : {<<>>, <<"h1">>},
             exclude : {<<>>, <<"h2">>},
             teardown_mcp : {<<>>, <<"manual-server">>},
             profile : {"", ExistingProfilePath, NonexistentProfilePath},
             discover : BOOLEAN] :
        LET early == {f \in {"help", "discover"} : a[f]}
                       \cup {f \in {"teardown_mcp"} : a[f] # <<>>}
        IN  \/ early = {}
            \/ Cardinality(early) = 1 /\ a.include = <<>> /\ a.exclude = <<>> }

\* the profile documents the file at ExistingProfilePath may hold
MainProfiles ==
    { [hooks |-> [h1 |-> Entry([enabled |-> TRUE], {})]],
      [hooks |-> [h1 |-> Entry(<<>>, {}), h2 |-> Entry([enabled |-> TRUE], {})],
       skills |-> <<>>] }

\* the hook directories of the repository, in sorted order, each with its
\* deploy.json and deploy.local.json
MainHookDirs ==
    { << [name |-> "h1", deploy |-> d1, local |-> l1],
         [name |-> "h2", deploy |-> d2, local |-> l2] >> :
        d1 \in { File([hooks_config |-> [event |-> "PreToolUse", matcher |-> "Bash",
                                         command_script |-> "run.sh"]]),
                 File([enabled |-> TRUE]) },
        l1 \in { AbsentFile,
                 File([hooks_config |-> [event |-> "PreToolUse", matcher |-> "Write",
                                         command_script |-> "local.sh"]]) },
        d2 \in { AbsentFile,
                 File([hooks_config |-> [event |-> "PreToolUse", matcher |-> "Edit",
                                         command_script |-> "fmt.sh", async |-> TRUE],
                       permissions |-> [allow |-> <<"Bash(git status)", "">>]]) },
        l2 \in { AbsentFile,
                 File([hooks_config |-> [event |-> "Stop", matcher |-> "Bash",
                                         command_script |-> "local.sh"]]),
                 File([enabled |-> FALSE]) } }

MainRepos ==
    [profile_file : {File(p) : p \in MainProfiles}, skills : {<<>>}, hooks : MainHookDirs]

\* the command lines of the runs over a repository of skills
SkillArgs ==
    [help : {FALSE},
     include : {<<>>, <<"s1">>},
     exclude : {<<>>, <<"s2">>},
     teardown_mcp : {<<>>},
     profile : {"", ExistingProfilePath},
     discover : {FALSE}]

\* the profiles of those runs: one that does not list s2, one that disables it
SkillProfiles ==
    { [skills |-> [s1 |-> Entry([enabled |-> TRUE], {})]],
      [skills |-> [s1 |-> Entry(<<>>, {}), s2 |-> Entry([enabled |-> FALSE], {})]] }

\* the skill directories, in sorted order, each with its deploy.json and
\* deploy.local.json
SkillDirs ==
    { << [name |-> "s1", deploy |-> d1, local |-> AbsentFile],
         [name |-> "s2", deploy |-> d2, local |-> l2] >> :
        d1 \in { File([permissions |-> [allow |-> <<"Bash(docker ps)">>]]),
                 File([permissions |-> [allow |-> <<"Bash(docker ps)">>],
                       dependencies |-> <<"s2">>]),
                 File([permissions |-> [allow |-> <<"Bash(docker ps)">>],
                       dependencies |-> <<"", "ghost">>]) },
        d2 \in { File([permissions |-> [allow |-> <<"Bash(lsof -i)">>,
                                        deny |-> <<"Read(.env)">>]]),
                 File([permissions |-> [allow |-> <<"Bash(lsof -i)">>,
                                        deny |-> <<"Read(.env)">>],
                       enabled |-> FALSE]),
                 File([permissions |-> [allow |-> <<"Bash(lsof -i)">>,
                                        deny |-> <<"Read(.env)">>],
                       scope |-> "project"]) },
        l2 \in { AbsentFile, File([enabled |-> FALSE]) } }

SkillRepos ==
    [profile_file : {File(p) : p \in SkillProfiles}, skills : SkillDirs, hooks : {<<>>}]

\* a run is a command line and the repository it is made in
MainRuns == (MainArgs \X MainRepos) \cup (SkillArgs \X SkillRepos)

\* the file a profile argument names
profile_file_at(path) == IF path = ExistingProfilePath THEN repo.profile_file ELSE AbsentFile

ProfileNotFound == <<"Error: Profile not found", NonexistentProfilePath>>
IncludeExcludeError == <<"Error: --include and --exclude are mutually exclusive", "">>

InitMain ==
    /\ settings \in {AbsentFile, File(ManualSettings)}
    /\ mcp_json = AbsentFile
    /\ dry_run \in BOOLEAN
    /\ skip_permissions \in BOOLEAN
    /\ pre_settings = settings
    /\ pre_mcp_json = mcp_json
    /\ last = NoCall
    /\ raised = FALSE
    /\ io = {}
    /\ report = <<>>
    /\ tmp = NoTmp
    /\ pre_tmp = NoTmp
    /\ repeat = FALSE
    /\ unowned0 = Unowned(settings)
    /\ runs = 0
    /\ ConfigAtRest
    /\ AtomicAtRest
    /\ DiffAtRest
    /\ \E run \in MainRuns : args = run[1] /\ repo = run[2]
    /\ main_pc = "start"
    /\ exit_code = -1
    /\ stderr = <<>>
    /\ profile = NoProfile
    /\ deployed = <<>>
    /\ links = {}
    /\ collected = NothingCollected

main_frame ==
    /\ UNCHANGED <<mcp_json, dry_run, skip_permissions, pre_settings, pre_mcp_json,
                   last, repeat, unowned0, runs, pre_tmp>>
    /\ UNCHANGED <<config_vars, atomic_vars, diff_vars>>
    /\ UNCHANGED <<args, repo>>

\* sys.exit(code), or the return from main() with code 0
Exit(code) == main_pc' = "exit" /\ exit_code' = code

\* --help and the checks of conflicting flags
MainValidate ==
    /\ main_pc = "start"
    /\ IF args.help
       THEN Exit(1) /\ stderr' = stderr
       ELSE IF args.include # <<>> /\ args.exclude # <<>>
       THEN Exit(1) /\ stderr' = Append(stderr, IncludeExcludeError)
       ELSE main_pc' = "teardown" /\ exit_code' = exit_code /\ stderr' = stderr
    /\ UNCHANGED <<settings, raised, io, report, tmp, profile, deployed, links, collected>>
    /\ main_frame

\* the --teardown-mcp branch: the removal routine, then return
MainTeardownMcp ==
    /\ main_pc = "teardown"
    /\ IF args.teardown_mcp # <<>>
       THEN /\ settings' = remove_settings_mcp(settings, args.teardown_mcp, dry_run)
            /\ io' = remove_settings_mcp_io(settings, args.teardown_mcp, dry_run)
            /\ report' = remove_settings_mcp_prints(settings, args.teardown_mcp, dry_run)
            /\ tmp' = tmp_after(tmp, io')
            /\ Exit(0)
       ELSE /\ UNCHANGED <<settings, io, report, tmp, exit_code>>
            /\ main_pc' = "profile"
    /\ UNCHANGED <<raised, stderr, profile, deployed, links, collected>>
    /\ main_frame

\* profile loading: the sentinel ends the run with an error
MainLoadProfile ==
    /\ main_pc = "profile"
    /\ profile' = load_profile(args.profile, profile_file_at(args.profile))
    /\ IF profile'.path = None
       THEN Exit(1) /\ stderr' = Append(stderr, ProfileNotFound)
       ELSE main_pc' = "discover" /\ exit_code' = exit_code /\ stderr' = stderr
    /\ UNCHANGED <<settings, raised, io, report, tmp, deployed, links, collected>>
    /\ main_frame

\* --discover prints the items and returns
MainDiscover ==
    /\ main_pc = "discover"
    /\ IF args.discover
       THEN Exit(0)
       ELSE main_pc' = "skills" /\ exit_code' = exit_code
    /\ UNCHANGED <<settings, raised, io, report, tmp, stderr, profile, deployed, links, collected>>
    /\ main_frame

\* the loop over the skill directories
MainDeploySkills ==
    /\ main_pc = "skills"
    /\ LET after == deploy_skills(repo.skills, repo.skills, profile.data, args.include,
                                  args.exclude, dry_run,
                                  [deployed |-> deployed, links |-> links,
                                   collected |-> collected])
       IN  /\ deployed' = after.deployed
           /\ links' = after.links
           /\ collected' = after.collected
    /\ main_pc' = "hooks"
    /\ UNCHANGED <<settings, raised, io, report, tmp, exit_code, stderr, profile>>
    /\ main_frame

\* the loop over the hook directories
MainDeployHooks ==
    /\ main_pc = "hooks"
    /\ LET after == deploy_hooks(repo.hooks, profile.data, args.include, args.exclude,
                                 dry_run,
                                 [deployed |-> deployed, links |-> links,
                                  collected |-> collected])
       IN  /\ deployed' = after.deployed
           /\ links' = after.links
           /\ collected' = after.collected
    /\ main_pc' = "settings"
    /\ UNCHANGED <<settings, raised, io, report, tmp, exit_code, stderr, profile>>
    /\ main_frame

\* update_settings_permissions on what collect_permissions gives for the
\* deployed config files
MainUpdateSettings ==
    /\ main_pc = "settings"
    /\ LET perms == collect_permissions(collected.deployed_configs)
       IN  settings' = update_settings_permissions(settings, perms[1], perms[2],
                                                   dry_run, skip_permissions)
    /\ io' = update_settings_permissions_io(dry_run, skip_permissions)
    /\ tmp' = tmp_after(tmp, io')
    /\ main_pc' = "settings_hooks"
    /\ UNCHANGED <<raised, report, exit_code, stderr, profile, deployed, links, collected>>
    /\ main_frame

\* update_settings_hooks on the collected hook configurations; its exception
\* ends the run
MainUpdateSettingsHooks ==
    /\ main_pc = "settings_hooks"
    /\ settings' = update_settings_hooks(settings, collected.hook_configs,
                                         dry_run, skip_permissions)
    /\ raised' = (/\ collected.hook_configs # <<>>
                  /\ update_settings_hooks_raises(collected.hook_configs, skip_permissions))
    /\ LET step == update_settings_hooks_io(collected.hook_configs, dry_run,
                                            skip_permissions)
       IN  io' = io \cup step /\ tmp' = tmp_after(tmp, step)
    /\ IF raised' THEN Exit(1) ELSE main_pc' = "settings_mcp" /\ exit_code' = exit_code
    /\ UNCHANGED <<report, stderr, profile, deployed, links, collected>>
    /\ main_frame

\* update_settings_mcp, then the end of main()
MainUpdateSettingsMcp ==
    /\ main_pc = "settings_mcp"
    /\ settings' = update_settings_mcp(settings, AbsentFile, <<>>, FALSE,
                                       dry_run, skip_permissions).settings
    /\ LET step == update_settings_mcp_io(<<>>, FALSE, dry_run, skip_permissions)
       IN  io' = io \cup step /\ tmp' = tmp_after(tmp, step)
    /\ Exit(0)
    /\ UNCHANGED <<raised, report, stderr, profile, deployed, links, collected>>
    /\ main_frame

NextMain ==
    \/ MainValidate
    \/ MainTeardownMcp
    \/ MainLoadProfile
    \/ MainDiscover
    \/ MainDeploySkills
    \/ MainDeployHooks
    \/ MainUpdateSettings
    \/ MainUpdateSettingsHooks
    \/ MainUpdateSettingsMcp

SpecMain == InitMain /\ [][NextMain]_vars

\* ------------------------------------------------------------- profile_diff
\* types = ["skills", "hooks", "mcp"], with "permissions" in deploy-py
types ==
    IF package = "deploy-py" THEN <<"skills", "hooks", "mcp", "permissions">>
    ELSE <<"skills", "hooks", "mcp">>

\* d.get(t) or default, of a dict given by its values and the keys it holds
\* null for: a missing key, null and the empty value all give the default
get_or(d, t, default) ==
    IF t \in DOMAIN d.vals /\ d.vals[t] # <<>> THEN d.vals[t] ELSE default

\* an on_disk that takes the names of the skills whatever the kind asked for
on_disk_of_skills(discover_data, t) ==
    LET items == get_or(discover_data, "skills", <<>>)
        named == SelectSeq(items, LAMBDA it : "name" \in DOMAIN it)
    IN  [i \in 1..Len(named) |-> named[i].name]

\* [item["name"] for item in discover_data.get(t) or [] if "name" in item]
on_disk(discover_data, t) ==
    LET items == get_or(discover_data, t, <<>>)
        named == SelectSeq(items, LAMBDA it : "name" \in DOMAIN it)
    IN  [i \in 1..Len(named) |-> named[i].name]

\* list((profile_data.get(t) or {}).keys())
in_profile(profile_doc, t) == Keys(get_or(profile_doc, t, <<>>))

\* [name for name in xs if name not in ys]
not_in(xs, ys) == SelectSeq(xs, LAMBDA name : name \notin Range(ys))

profile_diff(discover_data, profile_doc) ==
    [added |-> [t \in Range(types) |->
                   not_in(on_disk(discover_data, t), in_profile(profile_doc, t))],
     removed |-> [t \in Range(types) |->
                   not_in(in_profile(profile_doc, t), on_disk(discover_data, t))]]

\* ------------------------------------------------------ check_profile_drift
\* `not profile_data` of a dict
is_empty(d) == DOMAIN d.vals = {} /\ d.nulls = {}

\* profile_data.get(kind, {}).keys() of a section that is null has no keys()
check_profile_drift_raises(profile_doc) ==
    /\ ~is_empty(profile_doc)
    /\ profile_doc.nulls \cap {"skills", "hooks", "mcp", "permissions"} # {}

\* the lines "<key> (<kind>)" of the keys of profile_data[kind], sorted, that
\* are not in seen
stale_of(profile_doc, kind, seen) ==
    LET section == IF kind \in DOMAIN profile_doc.vals THEN profile_doc.vals[kind] ELSE <<>>
        keys == sorted_plain(Range(Keys(section)))
        stale == SelectSeq(keys, LAMBDA key : key \notin Range(seen))
    IN  [i \in 1..Len(stale) |-> <<stale[i], kind>>]

\* seen_mcp and seen_permissions default to None, which stands for []
check_profile_drift(seen_skills, seen_hooks, profile_doc, seen_mcp, seen_permissions) ==
    LET or_empty(seen) == IF seen.state = "value" THEN seen.v ELSE <<>>
    IN  IF is_empty(profile_doc) THEN <<>>
        ELSE stale_of(profile_doc, "skills", seen_skills)
             \o stale_of(profile_doc, "hooks", seen_hooks)
             \o stale_of(profile_doc, "mcp", or_empty(seen_mcp))
             \o stale_of(profile_doc, "permissions", or_empty(seen_permissions))

\* ------------------------------------------------------ the inputs looked at
MaxItems == 2

DiffNames == {"foo", "bar"}

\* an item of the discover output, and one without a name
DiscoverItems == {[name |-> n] : n \in DiffNames} \cup {[enabled |-> TRUE]}

\* what a document holds for a key: a value, null, or no such key
Value(v) == [state |-> "value", v |-> v]
Null == [state |-> "null", v |-> <<>>]
Missing == [state |-> "missing", v |-> <<>>]

\* the dict of the keys that are given a value or null
DictOf(by_kind) ==
    [vals |-> [t \in {k \in DOMAIN by_kind : by_kind[k].state = "value"} |-> by_kind[t].v],
     nulls |-> {k \in DOMAIN by_kind : by_kind[k].state = "null"}]

\* the item lists of up to MaxItems items
ItemLists == UNION {[1..n -> DiscoverItems] : n \in 0..MaxItems}

\* the profile sections of up to MaxItems items, their keys distinct and in
\* the order of the file
ProfileSections ==
    { [i \in 1..Len(ks) |-> <<ks[i], [enabled |-> TRUE]>>] :
        ks \in {s \in UNION {[1..n -> DiffNames] : n \in 0..MaxItems} :
                  \A i, j \in 1..Len(s) : s[i] = s[j] => i = j} }

DiscoverOutputs ==
    { DictOf([skills |-> s, hooks |-> h, mcp |-> m, permissions |-> p]) :
        s \in {Value(l) : l \in ItemLists} \cup {Null, Missing},
        h \in {Missing, Value(<<>>), Value(<<[name |-> "foo"]>>),
               Value(<<[name |-> "bar"], [name |-> "foo"]>>)},
        m \in {Value(<<>>), Value(<<[name |-> "foo"]>>)},
        p \in {Missing, Value(<<[name |-> "bar"]>>),
               Value(<<[name |-> "bar"], [name |-> "foo"]>>)} }

ProfileDocuments ==
    { DictOf([skills |-> s, hooks |-> h, mcp |-> m, permissions |-> p]) :
        s \in {Value(l) : l \in ProfileSections} \cup {Null, Missing},
        h \in {Missing, Null, Value(<< <<"foo", [enabled |-> TRUE]>> >>),
               Value(<< <<"bar", [enabled |-> TRUE]>> >>)},
        m \in {Value(<<>>), Value(<< <<"foo", [enabled |-> FALSE]>> >>)},
        p \in {Missing, Value(<< <<"foo", [enabled |-> TRUE]>> >>)} }
    \cup {DictOf([skills |-> Missing, hooks |-> Missing, mcp |-> Missing,
                  permissions |-> Missing])}

InitDiff ==
    /\ SettingsAtRest
    /\ ConfigAtRest
    /\ AtomicAtRest
    /\ MainAtRest
    /\ CollectAtRest
    /\ package \in {"deploy", "deploy-py"}
    /\ discover \in DiscoverOutputs
    /\ declared \in ProfileDocuments
    /\ output = [added |-> <<>>, removed |-> <<>>]
    /\ diff_pc = "start"
    /\ stale_items = <<>>

\* output = profile_diff(discover, profile)
ProfileDiff ==
    /\ diff_pc = "start"
    /\ output' = profile_diff(discover, declared)
    /\ diff_pc' = "returned"
    /\ UNCHANGED <<package, discover, declared, stale_items>>
    /\ UNCHANGED <<perm_files, permission_lists, collect_pc>>
    /\ UNCHANGED <<settings_vars, config_vars, atomic_vars, main_vars>>

\* the drift check of main, on the names of the directories on disk:
\* stale_items = check_profile_drift(seen_skills, seen_hooks, profile_data, seen_mcp)
\* when profile_data is not empty
CheckProfileDrift ==
    /\ diff_pc = "returned"
    /\ IF check_profile_drift_raises(declared)
       THEN /\ diff_pc' = "raised"
            /\ UNCHANGED stale_items
       ELSE /\ diff_pc' = "checked"
            /\ stale_items' =
                  IF is_empty(declared) THEN <<>>
                  ELSE check_profile_drift(on_disk(discover, "skills"),
                                           on_disk(discover, "hooks"), declared,
                                           Value(on_disk(discover, "mcp")), Null)
    /\ UNCHANGED <<package, discover, declared, output>>
    /\ UNCHANGED <<perm_files, permission_lists, collect_pc>>
    /\ UNCHANGED <<settings_vars, config_vars, atomic_vars, main_vars>>

NextDiff == ProfileDiff \/ CheckProfileDrift

SpecDiff == InitDiff /\ [][NextDiff]_vars

\* ------------------------------------------- a call of collect_permissions

MaxFiles == 3

\* the config files a call is given: with and without a permissions object,
\* with one array only, with empty and repeated entries, absent and corrupt
PermissionFiles ==
    { File([permissions |-> [allow |-> <<"Bash(git status)", "Bash(docker ps)">>,
                             deny |-> <<"Read(.env)">>]]),
      File([permissions |-> [allow |-> <<"Bash(docker ps)", "", "Bash(lsof -i)",
                                         "Bash(docker ps)">>]]),
      File([permissions |-> [deny |-> <<"Bash(my-custom-tool *)", "Read(.env)">>]]),
      File([enabled |-> TRUE]),
      AbsentFile }

FileLists == UNION {[1..n -> PermissionFiles] : n \in 0..MaxFiles}

InitCollect ==
    /\ SettingsAtRest
    /\ ConfigAtRest
    /\ AtomicAtRest
    /\ MainAtRest
    /\ package = "deploy"
    /\ discover = [vals |-> <<>>, nulls |-> {}]
    /\ declared = [vals |-> <<>>, nulls |-> {}]
    /\ output = [added |-> <<>>, removed |-> <<>>]
    /\ diff_pc = "start"
    /\ stale_items = <<>>
    /\ perm_files \in FileLists
    /\ permission_lists = <<<<>>, <<>>>>
    /\ collect_pc = "start"

\* allows, denies = collect_permissions(perm_files)
CollectPermissions ==
    /\ collect_pc = "start"
    /\ permission_lists' = collect_permissions(perm_files)
    /\ collect_pc' = "returned"
    /\ UNCHANGED <<perm_files, package, discover, declared, output, diff_pc, stale_items>>
    /\ UNCHANGED <<settings_vars, config_vars, atomic_vars, main_vars>>

NextCollect == CollectPermissions

SpecCollect == InitCollect /\ [][NextCollect]_vars

\* =================================================================== claims
\* what the last call found and what it left
Doc == load_json(settings)
PreDoc == load_json(pre_settings)
Wrote == ~dry_run /\ ~skip_permissions

AllowOf(d) == GetOr(GetOr(d, "permissions", <<>>), "allow", <<>>)
DenyOf(d) == GetOr(GetOr(d, "permissions", <<>>), "deny", <<>>)
HooksOf(d) == GetOr(d, "hooks", <<>>)
ServersOf(d) == GetOr(d, "mcpServers", <<>>)

\* the file the last MCP merger call targeted, before and after
McpTargetPre == load_json(IF last.project THEN pre_mcp_json ELSE pre_settings)
McpTargetPost == load_json(IF last.project THEN mcp_json ELSE settings)

\* the hooks_config record of the i-th hook of the last hooks-merger call
RecordAt(i) == DGet(load_json(last.hook_configs[i][2]), "hooks_config", <<>>)
GroupAt(i) == matcher_group(last.hook_configs[i][1], RecordAt(i))
\* the records whose groups the last call merged: none when the call ended in
\* an exception, which it does before the merge
Registering ==
    IF raised THEN {}
    ELSE {i \in 1..Len(last.hook_configs) : registers(RecordAt(i))}

GroupsWithMatcher(groups, m) ==
    {k \in 1..Len(groups) : GetOr(groups[k], "matcher", None) = m}

IsPrefix(s, t) == Len(s) <= Len(t) /\ \A k \in 1..Len(s) : t[k] = s[k]

\* C1: a merger call made again with the arguments of the call before it
\* leaves settings.json and .mcp.json exactly as that call left them, for
\* the permissions, the hooks and the MCP merger alike.
C1_Idempotent ==
    (repeat /\ last.op \in {"permissions", "hooks", "mcp"})
        => (settings = pre_settings /\ mcp_json = pre_mcp_json)

C1_Witness ==
    /\ repeat /\ Wrote
    /\ last.op = "hooks"
    /\ \E i \in Registering :
          \E k \in 1..Len(GetOr(HooksOf(Doc), RecordAt(i).event, <<>>)) :
              Get(HooksOf(Doc), RecordAt(i).event)[k] = GroupAt(i)

C3_UnownedPreserved == Unowned(settings) = unowned0

C3_Witness ==
    /\ runs = 2 /\ Wrote
    /\ last.op = "permissions"
    /\ settings # pre_settings
    /\ Has(Doc, "env") /\ Has(Doc, "model")
    /\ Has(GetOr(Doc, "permissions", <<>>), "defaultMode")
    /\ Has(Doc, "hooks")

\* C7: the permissions merger leaves allow holding exactly the entries of the
\* old allow list and of the collected list, each once, in grouped-sort
\* order, and likewise deny.
GroupedSorted(list) ==
    \A i, j \in 1..Len(list) :
        i < j => KeyLess(_permission_sort_key(list[i]), _permission_sort_key(list[j]))

C7_UnionGroupedSorted ==
    (last.op = "permissions" /\ Wrote) =>
        /\ Range(AllowOf(Doc)) = Range(AllowOf(PreDoc)) \cup Range(last.allows)
        /\ Range(DenyOf(Doc)) = Range(DenyOf(PreDoc)) \cup Range(last.denies)
        /\ Cardinality(Range(AllowOf(Doc))) = Len(AllowOf(Doc))
        /\ Cardinality(Range(DenyOf(Doc))) = Len(DenyOf(Doc))
        /\ GroupedSorted(AllowOf(Doc))
        /\ GroupedSorted(DenyOf(Doc))

C7_Witness ==
    /\ last.op = "permissions" /\ Wrote
    /\ AllowOf(PreDoc) = <<"Bash(my-custom-tool *)", "Bash(git status)">>
    /\ last.allows = <<"Bash(git status)", "Bash(docker ps)">>
    /\ AllowOf(Doc) = <<"Bash(git status)", "Bash(docker ps)", "Bash(my-custom-tool *)">>

\* C8: two different entries of the written allow list that start with
\* configured prefixes of two different groups stand in the order of those
\* groups in _PERMISSION_GROUPS.
GroupPos(group) ==
    CHOOSE p \in 1..Len(_PERMISSION_GROUPS) :
        /\ _PERMISSION_GROUPS[p][2] = group
        /\ \A q \in 1..Len(_PERMISSION_GROUPS) :
              _PERMISSION_GROUPS[q][2] = group => p <= q

C8_GroupOrderByPrefix ==
    (last.op = "permissions" /\ Wrote) =>
        \A i, j \in 1..Len(AllowOf(Doc)) :
            \A p, q \in 1..Len(_PERMISSION_GROUPS) :
                ( /\ AllowOf(Doc)[i] # AllowOf(Doc)[j]
                  /\ startswith(AllowOf(Doc)[i], _PERMISSION_GROUPS[p][1])
                  /\ startswith(AllowOf(Doc)[j], _PERMISSION_GROUPS[q][1])
                  /\ GroupPos(_PERMISSION_GROUPS[p][2]) < GroupPos(_PERMISSION_GROUPS[q][2]) )
                    => i < j

C10_MatcherlessRegistered ==
    (last.op = "hooks" /\ Wrote) =>
        \A i \in 1..Len(last.hook_configs) :
            LET hc == RecordAt(i) IN
            (Truthy(hc, "event") /\ Truthy(hc, "command_script") /\ "matcher" \notin DOMAIN hc)
                => \E k \in 1..Len(GetOr(HooksOf(Doc), hc.event, <<>>)) :
                      LET g == Get(HooksOf(Doc), hc.event)[k] IN
                      /\ ~Has(g, "matcher")
                      /\ Get(g, "hooks") = <<hook_entry(last.hook_configs[i][1], hc)>>

\* C4: for every key, resolve_config returns the value of the highest of the
\* five layers that defines it, whole, and no key that no layer defines.
Layer(n) == config_layers(files)[n]
Definers(k) == {n \in 1..5 : k \in DOMAIN Layer(n)}
Highest(S) == CHOOSE n \in S : \A m \in S : m <= n

C4_HighestLayerWins ==
    "resolve_config" \in calls =>
        /\ DOMAIN config \subseteq ConfigKeys
        /\ \A k \in ConfigKeys :
              IF Definers(k) = {} THEN k \notin DOMAIN config
              ELSE k \in DOMAIN config /\ config[k] = Layer(Highest(Definers(k)))[k]

C4_Witness ==
    /\ "resolve_config" \in calls
    /\ Definers("permissions") = {2, 3, 5}
    /\ Definers("on_path") = {1, 2, 4, 5}
    /\ config.permissions = [allow |-> <<>>, deny |-> <<"Bash(wc -l)">>]
    /\ config.on_path = FALSE
    /\ config.scope = "project"
    /\ "mcp" \notin DOMAIN config

\* C5: with a non-empty profile loaded, an item whose name is not a key of
\* the profile's section for its kind (or whose kind has no section) comes
\* out of the overlay with enabled = false and is skipped by
\* pre_deploy_checks, whatever its own layers resolved enabled to.
ProfilePresent == DOMAIN profile_data # {}
Listed == item.name \in DOMAIN DGet(profile_data, item.type, <<>>)

C5_UnlistedDisabled ==
    (ProfilePresent /\ ~Listed) =>
        /\ "apply_profile_overrides" \in calls => overlaid.enabled = FALSE
        /\ "pre_deploy_checks" \in calls => checks.skip_reason # None

C5_Witness ==
    /\ ProfilePresent /\ ~Listed
    /\ item.type \notin DOMAIN profile_data
    /\ calls = {"resolve_config", "apply_profile_overrides", "pre_deploy_checks"}
    /\ config.enabled = TRUE
    /\ overlaid.enabled = FALSE
    /\ checks.skip_reason = "disabled by config"

\* C6: the overlay changes nothing but enabled and on_path: with no profile
\* the result is the config; for a listed item it is the config with the
\* entry's non-null enabled and on_path put over it, and no other key of the
\* entry has any effect.
C6_OnlyEnabledAndOnPath ==
    "apply_profile_overrides" \in calls =>
        /\ DOMAIN overlaid \subseteq DOMAIN config \cup {"enabled", "on_path"}
        /\ \A k \in DOMAIN config \ {"enabled", "on_path"} :
              k \in DOMAIN overlaid /\ overlaid[k] = config[k]
        /\ ~ProfilePresent => overlaid = config
        /\ (ProfilePresent /\ Listed) =>
              LET entry == profile_data[item.type][item.name] IN
              \A k \in {"enabled", "on_path"} :
                  IF k \in DOMAIN entry.vals
                  THEN k \in DOMAIN overlaid /\ overlaid[k] = entry.vals[k]
                  ELSE /\ k \in DOMAIN overlaid <=> k \in DOMAIN config
                       /\ k \in DOMAIN config => overlaid[k] = config[k]

C6_Witness ==
    /\ "apply_profile_overrides" \in calls
    /\ ProfilePresent /\ Listed
    /\ "scope" \in DOMAIN profile_data[item.type][item.name].vals
    /\ profile_data[item.type][item.name].vals.scope = "project"
    /\ config.scope = "global"
    /\ overlaid.scope = "global"
    /\ config.enabled = FALSE
    /\ overlaid.enabled = TRUE

\* ------------------------------------------------------------------ C11
\* the records of the i-th hook's hooks_config, a single object being one record
RecordsAt(i) == IF is_list(RecordAt(i)) THEN RecordAt(i).array ELSE <<RecordAt(i)>>

\* the hooks of the last hooks-merger call whose hooks_config is an array
ArrayHooks == {i \in 1..Len(last.hook_configs) : is_list(RecordAt(i))}

\* the last call was a hooks merger that was neither skipped nor a dry run
HooksMergerRan ==
    last.op = "hooks" /\ last.hook_configs # <<>> /\ ~skip_permissions /\ ~dry_run

\* C11: a hooks merger call given a hook whose hooks_config is an array of
\* records completes without error, and every record of the array that names
\* an event, a matcher and a command_script has a matcher-group with its
\* matcher under its own event.
C11_ArrayRecordsRegistered ==
    (HooksMergerRan /\ ArrayHooks # {}) =>
        /\ ~raised
        /\ \A i \in ArrayHooks :
              \A r \in 1..Len(RecordsAt(i)) :
                  LET hc == RecordsAt(i)[r] IN
                  registers(hc) =>
                      \E k \in 1..Len(GetOr(HooksOf(Doc), hc.event, <<>>)) :
                          GetOr(Get(HooksOf(Doc), hc.event)[k], "matcher", None) = hc.matcher

\* ------------------------------------------------------------------ C12
\* the last call was an MCP merger that was neither skipped nor a dry run
McpMergerRan ==
    last.op = "mcp" /\ last.mcp_configs # <<>> /\ ~skip_permissions /\ ~dry_run

\* C12: after an MCP merger call every server name that was a key of the
\* target's mcpServers keeps the definition it had, also when this run
\* supplies another definition under that name, and every supplied name that
\* was not a key is a key now, with this run's definition.
C12_McpNeverOverwrites ==
    McpMergerRan =>
        LET before == ServersOf(McpTargetPre)
            after == ServersOf(McpTargetPost)
        IN  /\ \A i \in 1..Len(before) :
                  /\ Has(after, before[i][1])
                  /\ Get(after, before[i][1]) = before[i][2]
            /\ \A j \in 1..Len(last.mcp_configs) :
                  LET name == last.mcp_configs[j][1] IN
                  ~Has(before, name) =>
                      /\ Has(after, name)
                      /\ Get(after, name) = last.mcp_configs[j][2]

\* a run supplied its own definition for a server that was already there with
\* another one, and a server that was not there
C12_Witness ==
    /\ McpMergerRan
    /\ \E j, k \in 1..Len(last.mcp_configs) :
          LET name == last.mcp_configs[j][1]
              other == last.mcp_configs[k][1]
          IN  /\ Has(ServersOf(McpTargetPre), name)
              /\ Get(ServersOf(McpTargetPre), name) # last.mcp_configs[j][2]
              /\ Get(ServersOf(McpTargetPost), name) = HandServer
              /\ ~Has(ServersOf(McpTargetPre), other)
              /\ Has(ServersOf(McpTargetPost), other)

\* ------------------------------------------------------------------ C13
\* C13: with the skip flag set, a call of the permissions, hooks or MCP merger
\* makes no read and no write of settings.json or .mcp.json, and both files
\* are as they were before the call: an absent file stays absent and a file
\* that is there keeps its content.
C13_SkipIsNoOp ==
    (skip_permissions /\ last.op \in {"permissions", "hooks", "mcp"}) =>
        /\ io = {}
        /\ settings = pre_settings
        /\ mcp_json = pre_mcp_json

\* the hooks merger was called with the skip flag and a hook that would
\* register, on a settings file that has a hooks section of its own
C13_Witness ==
    /\ skip_permissions /\ ~dry_run
    /\ last.op = "hooks"
    /\ Registering # {}
    /\ HooksOf(PreDoc) # <<>>
    /\ settings = pre_settings

\* ------------------------------------------------------------------ C14
\* C14: after a dry-run call of the permissions, hooks or MCP merger or of
\* the MCP removal routine, settings.json, .mcp.json and the two temp files
\* are each in the state they were in before the call: absent if absent, and
\* with the same content otherwise.
C14_DryRunChangesNothing ==
    (dry_run /\ last.op # "none") =>
        /\ settings = pre_settings
        /\ mcp_json = pre_mcp_json
        /\ tmp = pre_tmp

\* a dry run of the permissions merger that had entries to add, with no
\* settings file there and a temp file left behind
C14_Witness ==
    /\ dry_run /\ ~skip_permissions
    /\ last.op = "permissions"
    /\ last.allows # <<>>
    /\ settings = AbsentFile
    /\ tmp = StaleTmp

\* ------------------------------------------------------------------ C15
\* instance i is the only one that has started
RunsAlone(i) == pc[i] # "idle" /\ \A k \in Instances \ {i} : pc[k] = "idle"

\* the whole new document of instance i is what settings.json holds
HoldsNew(i) == at_path("target") = [exists |-> TRUE, text |-> dumps(data[i])]

\* C15: while one instance runs a merger call, settings.json holds at every
\* step either what it held when the call started or the whole new document;
\* up to the rename, and when the call is killed or its write fails before the
\* rename, it holds what it held when the call started; once the call is done
\* it holds the whole new document.
C15_TargetOldOrNew ==
    \A i \in Instances :
        RunsAlone(i) =>
            /\ at_path("target") = pre[i] \/ HoldsNew(i)
            /\ pc[i] \in {"returned", "computed", "open", "written", "failed", "killed"}
                  => at_path("target") = pre[i]
            /\ pc[i] = "done" => HoldsNew(i)
            /\ pc[i] # "raised"

\* a call's write failed part-way: the temp file is left behind with a cut
\* text, and the settings file, which was there, is as it was
C15_Witness ==
    /\ RunsAlone(1)
    /\ pc[1] = "failed"
    /\ pre[1].exists
    /\ at_path("target") = pre[1]
    /\ at_path("tmp").exists
    /\ at_path("tmp").text # <<>>
    /\ ~well_formed(at_path("tmp").text)

\* ------------------------------------------------------------------ C16
\* both instances ran a merger call that writes, and both calls are over
\* without having been killed and without a failed write
BothOver == \A i \in Instances : pc[i] \in {"done", "raised"}

\* C16: when two instances have each run a merger call on the same settings
\* file, in whatever interleaving of their file operations, the file holds
\* the whole document one of the two computed.
C16_LastWriterWins ==
    BothOver => \E i \in Instances : HoldsNew(i)

\* ------------------------------------------------------------------ C17
\* a layer file taken as the empty object unless it holds an object
AsObject(f) == IF f.state = "ok" THEN f.doc ELSE <<>>

\* the five layers merged, with every layer that is not an object as {}
DegradedConfig ==
    reduce_merge(<< DEFAULTS, AsObject(files.repo_deploy), AsObject(files.repo_local),
                    AsObject(files.item_deploy), AsObject(files.item_local) >>)

\* C17: whatever state each of the four layer files is in (missing, not valid
\* JSON, unreadable, JSON that is not an object, an object), resolve_config
\* and _resolve_permission_config return, and what they return is the merge
\* of the layers with every file that is not an object taken as {}.
C17_ResolutionNeverFails ==
    /\ "resolve_config" \in calls =>
          "resolve_config" \notin failed /\ config = DegradedConfig
    /\ "_resolve_permission_config" \in calls =>
          "_resolve_permission_config" \notin failed /\ perm_config = DegradedConfig

\* ------------------------------------------------------------------ C18
\* the run was given a profile path that names no file
MissingProfileGiven == args.profile = NonexistentProfilePath

\* nothing has been deployed and the settings file has not been touched
NothingDone ==
    /\ deployed = <<>>
    /\ links = {}
    /\ io = {}
    /\ settings = pre_settings

\* the run gets as far as loading the profile: no --help, no conflicting
\* flags, no --teardown-mcp
ReachesProfileLoading ==
    /\ ~args.help
    /\ ~(args.include # <<>> /\ args.exclude # <<>>)
    /\ args.teardown_mcp = <<>>

\* C18 as stated: a run given a profile path that names no file ends with a
\* non-zero exit and the 'Profile not found' error, with nothing deployed and
\* the settings file not written.
C18_MissingProfileEndsRun ==
    (MissingProfileGiven /\ main_pc = "exit") =>
        /\ exit_code # 0
        /\ ProfileNotFound \in Range(stderr)
        /\ NothingDone

\* C18 as amended: load_profile returns the not-found sentinel for a path that
\* names no file, and a run given such a path that gets as far as loading the
\* profile never deploys an item or touches the settings file, and ends with
\* exit status 1 and the 'Profile not found' error.
C18_MissingProfileEndsDeployRun ==
    /\ load_profile(NonexistentProfilePath, profile_file_at(NonexistentProfilePath))
          = [path |-> None, data |-> None]
    /\ (MissingProfileGiven /\ ReachesProfileLoading) =>
          /\ NothingDone
          /\ main_pc \in {"start", "teardown", "profile", "exit"}
          /\ main_pc = "exit" =>
                /\ exit_code = 1
                /\ profile.path = None
                /\ stderr = <<ProfileNotFound>>

\* such a run has ended, in a repository where a hook would have been
\* deployed and a settings file written
C18_Witness ==
    /\ MissingProfileGiven /\ ReachesProfileLoading
    /\ main_pc = "exit"
    /\ ~dry_run /\ ~skip_permissions
    /\ profile.path = None
    /\ args.include = <<>> /\ args.exclude = <<>> /\ ~args.discover
    /\ "hooks_config" \in DOMAIN load_json(repo.hooks[1].deploy)

\* ------------------------------------------------------------------ C19
\* a deploy.local.json as it is without its hooks_config
without_hooks_config(f) ==
    IF f.state = "ok"
    THEN File([k \in DOMAIN f.doc \ {"hooks_config"} |-> f.doc[k]])
    ELSE f

\* the same hook directories, no deploy.local.json holding a hooks_config
WithoutLocalHooksConfig(hook_dirs) ==
    [i \in DOMAIN hook_dirs |->
        [hook_dirs[i] EXCEPT !.local = without_hooks_config(@)]]

\* what the run on those hook directories collects and leaves in the settings
OtherRunCollected ==
    deploy_hooks(WithoutLocalHooksConfig(repo.hooks), profile.data, args.include,
                 args.exclude, dry_run,
                 deploy_skills(repo.skills, repo.skills, profile.data, args.include,
                               args.exclude, dry_run,
                               [deployed |-> <<>>, links |-> {},
                                collected |-> NothingCollected])).collected

\* the three mergers of that run, on the settings file this run started from
OtherRunSettings ==
    LET perms == collect_permissions(OtherRunCollected.deployed_configs)
        after_permissions ==
            update_settings_permissions(pre_settings, perms[1], perms[2],
                                        dry_run, skip_permissions)
        after_hooks ==
            update_settings_hooks(after_permissions, OtherRunCollected.hook_configs,
                                  dry_run, skip_permissions)
    IN  IF /\ OtherRunCollected.hook_configs # <<>>
           /\ update_settings_hooks_raises(OtherRunCollected.hook_configs,
                                           skip_permissions)
        THEN after_hooks
        ELSE update_settings_mcp(after_hooks, AbsentFile, <<>>, FALSE,
                                 dry_run, skip_permissions).settings

\* the run went through the hook loop and the mergers
FullRun ==
    /\ ReachesProfileLoading
    /\ ~args.discover
    /\ main_pc = "exit"
    /\ profile.path # None

\* the hooks whose hooks_config is in deploy.local.json alone
LocalOnlyHooks ==
    {i \in DOMAIN repo.hooks :
        /\ "hooks_config" \in DOMAIN load_json(repo.hooks[i].local)
        /\ "hooks_config" \notin DOMAIN load_json(repo.hooks[i].deploy)}

\* the commands of every group of the hooks section of a document
CommandsOf(d) ==
    UNION { UNION { {GetOr(h, "command", None) : h \in Range(GetOr(g, "hooks", <<>>))} :
                    g \in Range(Get(HooksOf(d), e)) } :
            e \in Range(Keys(HooksOf(d))) }

\* C19: the hooks section a run writes is the one the run writes whose
\* deploy.local.json files hold no hooks_config: the collected hook
\* configurations and the settings file are the same in both runs, and a hook
\* whose hooks_config is in deploy.local.json alone has no configuration
\* collected and no command registered.
C19_HooksConfigFromDeployJsonOnly ==
    /\ (main_pc = "settings" \/ FullRun) =>
          collected.hook_configs = OtherRunCollected.hook_configs
    /\ FullRun =>
          /\ HooksOf(Doc) = HooksOf(load_json(OtherRunSettings))
          /\ settings = OtherRunSettings
          /\ \A i \in LocalOnlyHooks :
                /\ \A c \in Range(collected.hook_configs) : c[1] # repo.hooks[i].name
                /\ \A c \in CommandsOf(Doc) : c = None \/ c[2] # repo.hooks[i].name

\* a run that deployed a hook whose hooks_config is in deploy.local.json alone,
\* next to one whose deploy.json holds a hooks_config, and wrote the settings
C19_Witness ==
    /\ FullRun
    /\ Wrote
    /\ LocalOnlyHooks # {}
    /\ \E i \in LocalOnlyHooks : repo.hooks[i].name \in Range(deployed)
    /\ collected.hook_configs # <<>>
    /\ HooksOf(Doc) # HooksOf(PreDoc)
    /\ WithoutLocalHooksConfig(repo.hooks) # repo.hooks

\* ------------------------------------------------------------------ C20
\* the names discovered under a kind and the names the profile declares
DiscoveredNames(t) ==
    LET items == IF t \in DOMAIN discover.vals THEN discover.vals[t] ELSE <<>>
    IN  {items[i].name : i \in {j \in 1..Len(items) : "name" \in DOMAIN items[j]}}

DeclaredNames(t) ==
    LET section == IF t \in DOMAIN declared.vals THEN declared.vals[t] ELSE <<>>
    IN  {section[i][1] : i \in 1..Len(section)}

\* the inputs with nothing but kind t in them
OnlyKind(d, t) ==
    [vals |-> [k \in DOMAIN d.vals \cap {t} |-> d.vals[k]], nulls |-> d.nulls \cap {t}]

\* C20: for every kind, added[kind] holds exactly the discovered names that
\* are not keys of profile[kind] and removed[kind] exactly the keys of
\* profile[kind] that are not discovered names; a name in both is in neither
\* list, and the lists of a kind are those of the inputs with the other kinds
\* taken out.
C20_PerKindSetDifference ==
    diff_pc = "returned" =>
        /\ DOMAIN output = {"added", "removed"}
        /\ DOMAIN output.added = Range(types)
        /\ DOMAIN output.removed = Range(types)
        /\ \A t \in Range(types) :
              /\ Range(output.added[t]) = DiscoveredNames(t) \ DeclaredNames(t)
              /\ Range(output.removed[t]) = DeclaredNames(t) \ DiscoveredNames(t)
              /\ \A n \in DiscoveredNames(t) \cap DeclaredNames(t) :
                    n \notin Range(output.added[t]) \cup Range(output.removed[t])
              /\ LET alone == profile_diff(OnlyKind(discover, t), OnlyKind(declared, t))
                 IN  /\ alone.added[t] = output.added[t]
                     /\ alone.removed[t] = output.removed[t]

\* the diff of a profile and a discover output where, of the skills, one name
\* is in both and one only declared, of the hooks, one is in both and one only
\* discovered, and the name only declared as a skill is discovered as a hook
C20_Witness ==
    /\ diff_pc = "returned"
    /\ package = "deploy-py"
    /\ DiscoveredNames("skills") \cap DeclaredNames("skills") # {}
    /\ output.added["hooks"] = <<"bar">>
    /\ output.removed["hooks"] = <<>>
    /\ "bar" \in DeclaredNames("skills")
    /\ "bar" \notin DiscoveredNames("skills")
    /\ output.removed["skills"] = <<"bar">>
    /\ output.added["mcp"] = <<"foo">>
    /\ output.removed["permissions"] = <<"foo">>
    /\ output.added["permissions"] = <<"bar">>

\* ------------------------------------------------------------------ C21
\* the last call was the removal routine and not a dry run
Removal == last.op = "remove" /\ ~dry_run /\ last.server_names # <<>>

\* the named servers that were keys of mcpServers when the call started
NamedAndPresent ==
    Range(last.server_names) \cap Range(Keys(ServersOf(PreDoc)))

\* C21: the removal routine takes out of mcpServers the named servers that
\* are keys of it and nothing else, the others keeping their definitions and
\* their order; it reports the names it removed, each once; when none of the
\* named servers is a key it reports that and the settings file is not
\* written.
C21_RemovesNamedPresentOnly ==
    Removal =>
        /\ Keys(ServersOf(Doc))
              = SelectSeq(Keys(ServersOf(PreDoc)),
                          LAMBDA n : n \notin Range(last.server_names))
        /\ \A n \in Range(Keys(ServersOf(Doc))) :
              Get(ServersOf(Doc), n) = Get(ServersOf(PreDoc), n)
        /\ NamedAndPresent # {} =>
              /\ report[1] = "Removed from mcpServers"
              /\ Range(report[2]) = NamedAndPresent
              /\ Len(report[2]) = Cardinality(NamedAndPresent)
              /\ <<"write", "settings.json">> \in io
        /\ NamedAndPresent = {} =>
              /\ report = <<"No matching MCP servers found", <<>> >>
              /\ settings = pre_settings
              /\ <<"write", "settings.json">> \notin io
              /\ tmp = pre_tmp

\* a removal of two names, one a key and one not, from a file that holds a
\* hand-added server as well
C21_Witness ==
    /\ Removal
    /\ last.server_names = <<"srvA", "ghost">>
    /\ Keys(ServersOf(PreDoc)) = <<"manual-server", "srvA">>
    /\ Keys(ServersOf(Doc)) = <<"manual-server">>
    /\ Get(ServersOf(Doc), "manual-server") = HandServer
    /\ report = <<"Removed from mcpServers", <<"srvA">> >>

\* ------------------------------------------------------------------ C22
\* the names this run's MCP configurations carry
SuppliedServers == {last.mcp_configs[j][1] : j \in 1..Len(last.mcp_configs)}

\* C22: an MCP merger call changes at most one of the two files; with a
\* project path it reads and writes <project>/.mcp.json alone, the supplied
\* servers are keys there and the settings file is as it was; without one it
\* reads and writes the settings file alone, the supplied servers are keys
\* there and .mcp.json is neither created nor changed.
C22_OneTargetByMode ==
    /\ last.op = "mcp" => (settings = pre_settings \/ mcp_json = pre_mcp_json)
    /\ (McpMergerRan /\ last.project) =>
          /\ settings = pre_settings
          /\ tmp.settings = pre_tmp.settings
          /\ io = {<<"read", ".mcp.json">>, <<"write", ".mcp.json">>}
          /\ mcp_json.state = "ok"
          /\ SuppliedServers \subseteq Range(Keys(ServersOf(load_json(mcp_json))))
    /\ (McpMergerRan /\ ~last.project) =>
          /\ mcp_json = pre_mcp_json
          /\ tmp.mcp = pre_tmp.mcp
          /\ io = {<<"read", "settings.json">>, <<"write", "settings.json">>}
          /\ settings.state = "ok"
          /\ SuppliedServers \subseteq Range(Keys(ServersOf(Doc)))

\* a project-mode call created .mcp.json with the supplied server next to a
\* settings file that holds servers of its own and does not get this one
C22_Witness ==
    /\ McpMergerRan /\ last.project
    /\ pre_mcp_json = AbsentFile
    /\ Keys(ServersOf(load_json(mcp_json))) = <<"srvA">>
    /\ Keys(ServersOf(Doc)) = <<"manual-server">>
    /\ settings = pre_settings

\* ------------------------------------------------------------------ C23
\* the skills and hooks of the repository
Items == Range(repo.skills) \cup Range(repo.hooks)

\* the non-empty permission entries an item's two config files declare
Declares(d, kind) ==
    {x \in Range(DGet(DGet(load_json(d.deploy), "permissions", <<>>), kind, <<>>))
           \cup Range(DGet(DGet(load_json(d.local), "permissions", <<>>), kind, <<>>)) :
        x # ""}

SkippedItem(d) == d.name \notin Range(deployed)

\* a deployed skill names the item among its dependencies
DependencyOfDeployed(d) ==
    \E s \in Range(repo.skills) :
        /\ s.name \in Range(deployed)
        /\ d.name \in Range(DGet(resolve_config(hook_layers(s)), "dependencies", <<>>))

\* declared by an item, and by skipped items alone, none of them a dependency
\* of a deployed skill
OnlySkippedDeclare(x, kind) ==
    /\ \E d \in Items : x \in Declares(d, kind)
    /\ \A d \in Items :
          x \in Declares(d, kind) => SkippedItem(d) /\ ~DependencyOfDeployed(d)

\* the loops over the items are done and the permissions merger has run
PermissionsMerged == main_pc \in {"settings_hooks", "settings_mcp"} \/ FullRun

\* C23: after the permissions merger of a run, an entry that only skipped
\* items declare, none of them a dependency of a deployed skill, and that the
\* settings file did not hold, is neither in permissions.allow nor in
\* permissions.deny for the list it is declared for.
C23_SkippedItemsAddNothing ==
    PermissionsMerged =>
        /\ \A x \in AllowUniverse \cup DenyUniverse :
              (OnlySkippedDeclare(x, "allow") /\ x \notin Range(AllowOf(PreDoc)))
                  => x \notin Range(AllowOf(Doc))
        /\ \A x \in AllowUniverse \cup DenyUniverse :
              (OnlySkippedDeclare(x, "deny") /\ x \notin Range(DenyOf(PreDoc)))
                  => x \notin Range(DenyOf(Doc))

\* a run that wrote the entry of the deployed skill s1 and not the entries of
\* s2, which the profile does not list
C23_Witness ==
    /\ FullRun /\ Wrote
    /\ Range(deployed) = {"s1"}
    /\ args.profile = ExistingProfilePath
    /\ "s2" \notin DOMAIN profile.data.skills
    /\ args.include = <<>> /\ args.exclude = <<>>
    /\ DGet(resolve_config(hook_layers(repo.skills[2])), "enabled", TRUE)
    /\ OnlySkippedDeclare("Bash(lsof -i)", "allow")
    /\ OnlySkippedDeclare("Read(.env)", "deny")
    /\ "Bash(docker ps)" \in Range(AllowOf(Doc)) \ Range(AllowOf(PreDoc))
    /\ "Bash(lsof -i)" \notin Range(AllowOf(Doc))
    /\ "Read(.env)" \notin Range(DenyOf(Doc))

\* ------------------------------------------------------------------ C24
\* the gate was called for the item and did not end in an exception
GateReturned == "pre_deploy_checks" \in calls \ failed

\* C24: is_filtered_out is true exactly when the include list is not empty
\* and lacks the name, or the include list is empty and the exclude list is
\* not and holds the name; with a non-empty include list the result is the
\* same for every exclude list, and with both lists empty it is false. The
\* gate skips an item as filtered out in exactly these cases.
C24_FilteredOutExactly ==
    LET name == item.name
        include == filters.include
        exclude == filters.exclude
        expected == \/ include # <<>> /\ name \notin Range(include)
                    \/ include = <<>> /\ exclude # <<>> /\ name \in Range(exclude)
    IN  /\ is_filtered_out(name, include, exclude) = expected
        /\ include # <<>> =>
              \A f \in Filters :
                  is_filtered_out(name, include, f.exclude)
                      = is_filtered_out(name, include, exclude)
        /\ ~is_filtered_out(name, <<>>, <<>>)
        /\ GateReturned => ((checks.skip_reason = "filtered out") = expected)
        /\ "pre_deploy_checks" \in failed => ~expected

\* the gate let through an item that is on both lists
C24_Witness ==
    /\ GateReturned
    /\ item.name = "tool"
    /\ filters = [include |-> <<"tool">>, exclude |-> <<"tool">>]
    /\ checks.skip_reason # "filtered out"

\* ---------------------------------------------------------------- C25

\* the non-empty entries of one array of the files of a list
EntriesOf(fs, kind) ==
    UNION {{x \in Range(DGet(DGet(load_json(fs[i]), "permissions", <<>>), kind, <<>>)) : x # ""}
           : i \in 1..Len(fs)}

\* a list holds exactly the entries of a set, each once, in grouped-sort order
GroupedListOf(list, set) ==
    /\ Range(list) = set
    /\ Len(list) = Cardinality(set)
    /\ \A i \in 1..(Len(list) - 1) :
           KeyLess(_permission_sort_key(list[i]), _permission_sort_key(list[i + 1]))

Reversed(fs) == [i \in 1..Len(fs) |-> fs[Len(fs) + 1 - i]]

\* C25: collect_permissions returns, for allow and for deny, the union of the
\* non-empty entries of all the files it is given, each entry once and in
\* grouped-sort order, a file without the array adding nothing; the lists are
\* the same for the files in reverse order and for the files given twice
C25_UnionInGroupedOrder ==
    collect_pc = "returned" =>
        /\ GroupedListOf(permission_lists[1], EntriesOf(perm_files, "allow"))
        /\ GroupedListOf(permission_lists[2], EntriesOf(perm_files, "deny"))
        /\ collect_permissions(Reversed(perm_files)) = permission_lists
        /\ collect_permissions(perm_files \o perm_files) = permission_lists
        /\ \A fs \in FileLists :
               (/\ EntriesOf(fs, "allow") = EntriesOf(perm_files, "allow")
                /\ EntriesOf(fs, "deny") = EntriesOf(perm_files, "deny"))
               => collect_permissions(fs) = permission_lists

\* three files given with an entry in two of them, an empty entry and a file
\* without a deny array, whose reverse order is another list
C25_Witness ==
    /\ collect_pc = "returned"
    /\ Len(perm_files) = MaxFiles
    /\ Reversed(perm_files) # perm_files
    /\ \E i, j \in 1..Len(perm_files) :
           /\ i < j
           /\ perm_files[i] # perm_files[j]
           /\ "Bash(docker ps)" \in EntriesOf(<<perm_files[i]>>, "allow")
           /\ "Bash(docker ps)" \in EntriesOf(<<perm_files[j]>>, "allow")
           /\ "" \in Range(DGet(DGet(load_json(perm_files[j]), "permissions", <<>>), "allow", <<>>))
           /\ "deny" \notin DOMAIN DGet(load_json(perm_files[j]), "permissions", <<>>)
    /\ Len(permission_lists[1]) = 3
    /\ Len(permission_lists[2]) >= 1

\* ---------------------------------------------------------------- C26

\* the names the drift check of the run reported stale under a kind
StaleNames(kind) ==
    {stale_items[i][1] : i \in {j \in 1..Len(stale_items) : stale_items[j][2] = kind}}

\* C26: for each of the kinds skills, hooks, mcp and permissions, the names
\* reported stale are exactly the keys of profile[kind] with no item of that
\* kind and name on disk (the removed[kind] of the diff), so an item on disk
\* is never reported stale and an empty profile yields none.
C26_StaleIsRemoved ==
    diff_pc = "checked" =>
        /\ \A kind \in {"skills", "hooks", "mcp", "permissions"} :
              /\ StaleNames(kind) = DeclaredNames(kind) \ DiscoveredNames(kind)
              /\ kind \in Range(types) => StaleNames(kind) = Range(output.removed[kind])
        /\ is_empty(declared) => stale_items = <<>>

\* ---------------------------------------------------------------- C27

\* C27: a hooks merge leaves every event that was there in its place, with the
\* groups it had as an unchanged head of its list and new groups after them,
\* and adds new events after the old ones; an MCP merge leaves the servers of
\* its target in their order with their definitions and adds new ones after.
C27_MergersKeepOrder ==
    /\ last.op = "hooks" =>
          /\ IsPrefix(Keys(HooksOf(PreDoc)), Keys(HooksOf(Doc)))
          /\ \A e \in Range(Keys(HooksOf(PreDoc))) :
                IsPrefix(Get(HooksOf(PreDoc), e), Get(HooksOf(Doc), e))
    /\ last.op = "mcp" =>
          /\ IsPrefix(ServersOf(McpTargetPre), ServersOf(McpTargetPost))
          /\ IsPrefix(Keys(HooksOf(PreDoc)), Keys(HooksOf(Doc)))

\* an MCP merge that added a server after the hand-made one of the same file,
\* in a settings file where an earlier hooks merge added a group after the two
\* hand-made groups of PreToolUse
C27_Witness ==
    /\ McpMergerRan /\ ~last.project
    /\ ServersOf(PreDoc) = << <<"srvA", HandServer>> >>
    /\ ServersOf(Doc) = << <<"srvA", HandServer>>, <<"srvB", RepoServerB>> >>
    /\ Len(Get(HooksOf(Doc), "PreToolUse")) = 3
    /\ IsPrefix(<<HandBashGroup, HandMatcherlessGroup>>, Get(HooksOf(Doc), "PreToolUse"))

\* ---------------------------------------------------------------- C28

\* the pairs of hooks of the last call, in processing order, whose records
\* register the same event and the same matcher
SameEventAndMatcher ==
    {p \in Registering \X Registering :
        /\ p[1] < p[2]
        /\ RecordAt(p[1]).event = RecordAt(p[2]).event
        /\ RecordAt(p[1]).matcher = RecordAt(p[2]).matcher}

\* the places (event, index) of the groups of a document that hold the command
\* of the i-th hook of the last call
GroupsHolding(d, i) ==
    LET path == command_path(last.hook_configs[i][1], RecordAt(i).command_script)
    IN  {p \in UNION {{e} \X (1..Len(Get(HooksOf(d), e))) : e \in Range(Keys(HooksOf(d)))} :
            \E n \in 1..Len(GetOr(Get(HooksOf(d), p[1])[p[2]], "hooks", <<>>)) :
                GetOr(Get(Get(HooksOf(d), p[1])[p[2]], "hooks")[n], "command", None) = path}

\* no group the call added has the matcher of another group of its event
NoEqualMatcherCreated ==
    \A e \in Range(Keys(HooksOf(Doc))) :
        LET before == GetOr(HooksOf(PreDoc), e, <<>>)
            after == Get(HooksOf(Doc), e)
        IN  \A k \in (Len(before) + 1)..Len(after) :
                GroupsWithMatcher(after, GetOr(after[k], "matcher", None)) = {k}

\* C28 as stated: after a hooks merge of two hooks with the same event and
\* matcher, the command of the second is in no group of the settings file,
\* also after a rerun, and the merge made no two groups of equal matcher.
C28_SecondInNoGroup ==
    (last.op = "hooks" /\ Wrote) =>
        /\ \A p \in SameEventAndMatcher : GroupsHolding(Doc, p[2]) = {}
        /\ NoEqualMatcherCreated

\* C28: after a hooks merge of two hooks with the same event and matcher, the
\* second has no group of its own: its command is in the groups that held it
\* before the call and in no other, the one group the call may add under that
\* matcher is the first hook's, a rerun changes nothing, and the merge made no
\* two groups of equal matcher.
C28_SecondGetsNoGroup ==
    (last.op = "hooks" /\ Wrote) =>
        /\ \A p \in SameEventAndMatcher :
              LET e == RecordAt(p[1]).event
                  m == RecordAt(p[1]).matcher
                  before == GetOr(HooksOf(PreDoc), e, <<>>)
                  after == GetOr(HooksOf(Doc), e, <<>>)
              IN  /\ GroupsHolding(Doc, p[2]) = GroupsHolding(PreDoc, p[2])
                  /\ \A k \in (Len(before) + 1)..Len(after) :
                        GetOr(after[k], "matcher", None) = m
                            => \E i \in Registering :
                                  /\ i <= p[1]
                                  /\ after[k] = GroupAt(i)
        /\ NoEqualMatcherCreated
        /\ repeat => settings = pre_settings

\* a rerun of a hooks merge of h1 and h2, both on PreToolUse and Bash, on a
\* settings file whose one group under PreToolUse is h1's
C28_Witness ==
    /\ last.op = "hooks" /\ Wrote /\ repeat
    /\ <<1, 2>> \in SameEventAndMatcher
    /\ RecordAt(1).event = "PreToolUse"
    /\ Get(HooksOf(Doc), "PreToolUse") = <<GroupAt(1)>>
    /\ GroupsHolding(Doc, 1) = {<<"PreToolUse", 1>>}
    /\ GroupsHolding(Doc, 2) = {}

\* ---------------------------------------------------------------- C29

\* every group of every event of document d is a group of that event in e
GroupsKept(d, e) ==
    \A ev \in Range(Keys(HooksOf(d))) :
        /\ Has(HooksOf(e), ev)
        /\ Range(Get(HooksOf(d), ev)) \subseteq Range(Get(HooksOf(e), ev))
        /\ Len(Get(HooksOf(d), ev)) <= Len(Get(HooksOf(e), ev))

\* C29: no call of a merger or of the teardown takes an entry out of
\* permissions.allow or permissions.deny or a matcher-group out of an event,
\* and no call of a merger takes a key out of mcpServers of settings.json or
\* of .mcp.json, whatever the items of this run and of the runs before it
\* supplied.
C29_ManagedSectionsOnlyGrow ==
    last.op \in {"permissions", "hooks", "mcp", "remove"} =>
        /\ Range(AllowOf(PreDoc)) \subseteq Range(AllowOf(Doc))
        /\ Range(DenyOf(PreDoc)) \subseteq Range(DenyOf(Doc))
        /\ GroupsKept(PreDoc, Doc)
        /\ last.op # "remove" =>
              /\ Range(Keys(ServersOf(PreDoc))) \subseteq Range(Keys(ServersOf(Doc)))
              /\ Range(Keys(ServersOf(load_json(pre_mcp_json))))
                    \subseteq Range(Keys(ServersOf(load_json(mcp_json))))

\* a later permissions merge whose items no longer supply the permission an
\* earlier run added: the settings file holds it still, beside the new ones
C29_Witness ==
    /\ runs = MaxRuns
    /\ last.op = "permissions" /\ Wrote
    /\ "Bash(docker ps)" \notin Range(last.allows)
    /\ "Bash(docker ps)" \in Range(AllowOf(PreDoc))
    /\ "Bash(docker ps)" \in Range(AllowOf(Doc))
    /\ Len(AllowOf(Doc)) > Len(AllowOf(PreDoc))

\* ---------------------------------------------------------------- C30

\* C30: a teardown call reads and writes no file but settings.json: .mcp.json
\* and its temp file are as before the call, so a server a project-mode merge
\* put in .mcp.json is there after the teardown of its name, and after a
\* teardown that is not a dry run none of the named servers is a key of
\* mcpServers of settings.json.
C30_TeardownIsGlobalOnly ==
    last.op = "remove" =>
        /\ \A access \in io : access[2] = "settings.json"
        /\ mcp_json = pre_mcp_json
        /\ tmp.mcp = pre_tmp.mcp
        /\ ~dry_run =>
              \A name \in Range(last.server_names) : ~Has(ServersOf(Doc), name)

\* the teardown of srvA after a project-mode merge registered the repository's
\* srvA in .mcp.json: settings.json had a srvA and has it no more, and
\* .mcp.json holds the one the merge put there
C30_Witness ==
    /\ last.op = "remove" /\ ~dry_run
    /\ "srvA" \in Range(last.server_names)
    /\ Has(ServersOf(PreDoc), "srvA")
    /\ ~Has(ServersOf(Doc), "srvA")
    /\ <<"write", "settings.json">> \in io
    /\ ServersOf(load_json(mcp_json)) = << <<"srvA", RepoServer>> >>
====
